---- MODULE Spec2Model ----
(***************************************************************************)
(* Verification model of xtcjs: the XTG page codec and the XTC container   *)
(* codec (lib/xtc-format.ts, lib/xtc-reader.ts), merge and split           *)
(* (lib/merge.ts, lib/split.ts), the page mapping / TOC remapper           *)
(* (lib/page-mapping.ts) and the batch conversion loops                    *)
(* (components/ConverterPage.tsx, main.ts).                                *)
(*                                                                         *)
(* Buffers are sequences of bytes (0..255); byte offsets of the source are *)
(* 0-based, sequence positions 1-based, so the byte at offset o is         *)
(* buf[o + 1].                                                             *)
(***************************************************************************)
EXTENDS Integers, Sequences, FiniteSets, TLC

VARIABLES
    encPages,      \* buildXtc: the ProcessedPage canvases handed to buildXtc
    encBuffer,     \* buildXtc: the ArrayBuffer it returned
    encParsed,     \* parseXtcFile: the ParsedXtc read back from encBuffer
    encPc,         \* position of the encode / decode round trip
    mFiles,        \* mergeFiles: the input File list
    mFormat,       \* mergeFiles: outputFormat
    mPc,           \* mergeFiles: which loop of which merge function runs
    mIdx,          \* fileIdx of the running merge loop (0-based)
    mAll,          \* allXtgData / allImages / allCanvases collected so far
    mProgress,     \* every MergeProgress handed to onProgress, in order
    mReads,        \* indices of the files whose contents were read so far
    mResult,       \* the MergeResult the promise resolved with
    mError,        \* the message of the error the promise rejected with
    sFile,         \* splitFile: the input File
    sRanges,       \* splitFile: the PageRange list
    sFormat,       \* splitFile: outputFormat
    sPc,           \* splitFile: which loop of which split function runs
    sIdx,          \* rangeIdx of the running split loop (0-based)
    sParsed,       \* splitXtcFile: the ParsedXtc of the input
    sResults,      \* the local results array of the split function
    sReturned,     \* the SplitResult list the promise resolved with
    sProgress,     \* every SplitProgress handed to onProgress, in order
    sError,        \* the message of the error the promise rejected with
    uiMode,        \* MergePage: mode
    uiSplitMethod, \* MergePage: splitMethod
    uiRangesInput, \* MergePage: rangesInput, a list of characters
    uiPartsCount,  \* MergePage: partsCount
    uiTotalPages,  \* MergePage: totalPages
    uiXtcFormat,   \* MergePage: xtcOutputFormat
    uiResults,     \* MergePage: results
    uiPc,          \* position of handleProcess
    pmPages,       \* ComicInfo: the Bookmark attribute of each Page element
    pmToc,         \* BookMetadata: toc
    pmMappings,    \* PageMappingContext: mappings
    pmCurrentXtcPage, \* PageMappingContext: currentXtcPage
    pmPc,          \* position of the conversion that owns the context
    bKind,         \* which page runs the batch: ConverterPage or main.ts
    bFileType,     \* ConverterPage: the fileType prop
    bFiles,        \* selectedFiles
    bStorage,      \* useStoredResults: isStorageEnabled with a session id
    bDb,           \* IndexedDB: the conversions stored for the session
    bRecorded,     \* conversions reported to the statistics endpoint
    bI,            \* the loop index i
    bResults,      \* the results list shown to the user
    bPc,           \* position of handleConvert / startConversion
    rsImage,       \* ImageData: width, height and the gray level of each pixel
    rsOptions,     \* ConversionOptions: contrast and dithering
    rsPasses,      \* how many times applyDithering ran on the buffer
    rsXtg,         \* imageDataToXtg: the ArrayBuffer it returned
    rsPc,          \* which function ran last on the buffer
    nmImages,      \* convertCbzToXtc: the shape of each image of the archive
    nmOptions,     \* ConversionOptions: orientation, splitMode, margin
    nmPages,       \* processedPages: page number and name of each output page
    nmPc,          \* position of the conversion that names the pages
    wasmBinaryCache, \* the module variable wasmBinaryCache: "null" or the asset
    wcPc,          \* position of each convertCbrToXtc call in loadUnrarWasm
    wcFetches,     \* how many times fetch(unrarWasm) was called
    wcWrites,      \* how many times wasmBinaryCache was assigned
    hdCount,       \* buildXtcFromRawPages: xtgBlobs.length
    hdBuffer,      \* the first 48 bytes of the buffer it returned
    hdHeader,      \* parseXtcHeader: the XtcHeader read back
    hdPc,          \* position of the header round trip
    epTotalPages,  \* calculateEqualParts: totalPages
    epParts,       \* calculateEqualParts: parts
    epResult,      \* what the call returned or threw
    epPc           \* position of the call

encVars == <<encPages, encBuffer, encParsed, encPc>>

mergeVars == <<mFiles, mFormat, mPc, mIdx, mAll, mProgress, mReads, mResult,
               mError>>

splitVars == <<sFile, sRanges, sFormat, sPc, sIdx, sParsed, sResults,
               sReturned, sProgress, sError>>

uiVars == <<uiMode, uiSplitMethod, uiRangesInput, uiPartsCount, uiTotalPages,
            uiXtcFormat, uiResults, uiPc>>

pmVars == <<pmPages, pmToc, pmMappings, pmCurrentXtcPage, pmPc>>

batchVars == <<bKind, bFileType, bFiles, bStorage, bDb, bRecorded, bI,
               bResults, bPc>>

rasterVars == <<rsImage, rsOptions, rsPasses, rsXtg, rsPc>>

nameVars == <<nmImages, nmOptions, nmPages, nmPc>>

wasmVars == <<wasmBinaryCache, wcPc, wcFetches, wcWrites>>

headVars == <<hdCount, hdBuffer, hdHeader, hdPc>>

partsVars == <<epTotalPages, epParts, epResult, epPc>>

procVars == <<rasterVars, nameVars, wasmVars, headVars, partsVars>>

vars == <<encPages, encBuffer, encParsed, encPc,
          mFiles, mFormat, mPc, mIdx, mAll, mProgress, mReads, mResult, mError,
          sFile, sRanges, sFormat, sPc, sIdx, sParsed, sResults, sReturned,
          sProgress, sError,
          uiMode, uiSplitMethod, uiRangesInput, uiPartsCount, uiTotalPages,
          uiXtcFormat, uiResults, uiPc,
          pmPages, pmToc, pmMappings, pmCurrentXtcPage, pmPc,
          bKind, bFileType, bFiles, bStorage, bDb, bRecorded, bI, bResults,
          bPc,
          rsImage, rsOptions, rsPasses, rsXtg, rsPc,
          nmImages, nmOptions, nmPages, nmPc,
          wasmBinaryCache, wcPc, wcFetches, wcWrites,
          hdCount, hdBuffer, hdHeader, hdPc,
          epTotalPages, epParts, epResult, epPc>>

----------------------------------------------------------------------------
(* Bounds of the model.                                                    *)

\* Device page width in pixels.  canvas.ts sets 480; the model scales the
\* device page down so that whole containers can be enumerated byte by byte.
\* The value is not a multiple of 8, so the last byte of a row is padded.
DeviceW == 9
\* Device page height in pixels (800 in canvas.ts), scaled down likewise.
DeviceH == 2
\* Longest page list handed to buildXtc.
MaxPages == 3
\* Longest file list handed to mergeFiles.
MaxFiles == 2
\* Longest range list handed to splitFile.
MaxRanges == 2
\* Largest page number a range handed to splitFile may name.
MaxRangePage == 2
\* Longest text typed into the page ranges field.
MaxInput == 5
\* Largest number of parts chosen in the split options.
MaxParts == 4
\* Largest original page number handed to addOriginalPage.
MaxOrig == 3
\* Largest number of output pages one original page becomes.
MaxCount == 2
\* Largest number of addOriginalPage calls on one context.
MaxCalls == 3
\* Largest number of images in a converted archive.
MaxBookPages == 12
\* Largest number of files selected for one batch conversion.
MaxBatch == 3

----------------------------------------------------------------------------
(* Arithmetic and byte helpers.                                            *)

Min(a, b) == IF a < b THEN a ELSE b

\* Math.floor(w / 8) + 1: one byte too many when 8 divides w.
FloorDiv8PlusOne(w) == (w \div 8) + 1

CeilDiv8(w) == (w + 7) \div 8

Pow2(n) == CASE n = 0 -> 1 [] n = 1 -> 2 [] n = 2 -> 4 [] n = 3 -> 8
             [] n = 4 -> 16 [] n = 5 -> 32 [] n = 6 -> 64 [] n = 7 -> 128

Zeros(n) == [i \in 1..n |-> 0]

\* DataView.setUint16(off, v, true): v is taken modulo 2^16, low byte first.
U16LE(v) == <<(v % 65536) % 256, (v % 65536) \div 256>>

\* DataView.setUint32(off, v, true).  Every value the model writes is below
\* 2^31, so the modulo 2^32 of the source never changes it.
U32LE(v) == <<v % 256, (v \div 256) % 256, (v \div 65536) % 256,
              (v \div 16777216) % 256>>

\* setBigUint64(view, off, value): low 32 bits, then high 32 bits
\* (value >> 32n, which is 0 for every value below 2^32).
U64LE(v) == U32LE(v) \o U32LE(0)

\* uint8.set(bytes, off) / view.setUintN(off, ...): overwrite in place.
WriteAt(buf, off, bytes) ==
    [i \in 1..Len(buf) |->
        IF i > off /\ i <= off + Len(bytes) THEN bytes[i - off] ELSE buf[i]]

\* DataView.getUint16(off, true)
GetU16(buf, off) == buf[off + 1] + 256 * buf[off + 2]

\* DataView.getUint32(off, true)
GetU32(buf, off) ==
    buf[off + 1] + 256 * buf[off + 2] + 65536 * buf[off + 3]
        + 16777216 * buf[off + 4]

\* getBigUint64(view, off): low word + (high word << 32).  The model only
\* reads containers whose high words are 0.
GetU64(buf, off) == GetU32(buf, off)

\* ArrayBuffer.prototype.slice(begin, end): both ends are clamped to the
\* buffer, an empty range gives an empty buffer.
SliceBuf(buf, begin, end) ==
    SubSeq(buf, Min(begin, Len(buf)) + 1, Min(end, Len(buf)))

----------------------------------------------------------------------------
(* XTG page codec: imageDataToXtg (lib/xtc-format.ts).                     *)

\* Canvas contents the model draws pages from.  A pixel is the value of its
\* red channel, the only channel imageDataToXtg reads (data[idx]).
NumPatterns == 4

PatternPixel(p, x, y) ==
    CASE p = 1 -> 255
      [] p = 2 -> 0
      [] p = 3 -> IF (x + y) % 2 = 0 THEN 128 ELSE 127
      [] OTHER -> IF x % 3 = 0 THEN 200 ELSE 50

\* ctx.getImageData(0, 0, w, h) of a canvas painted with pattern p.
ImageOf(p, w, h) ==
    [width |-> w, height |-> h,
     data |-> [i \in 1..(w * h) |-> PatternPixel(p, (i - 1) % w, (i - 1) \div w)]]

\* A bit that is set only above 128.
PixelBitAbove(img, x, y) ==
    IF img.data[y * img.width + x + 1] > 128 THEN 1 ELSE 0

\* The bit imageDataToXtg computes for pixel (x, y).
PixelBit(img, x, y) ==
    IF img.data[y * img.width + x + 1] >= 128 THEN 1 ELSE 0

\* Byte k (0-based) of pixelData after the packing loop: pixel (x, y) sets
\* bit 7 - (x % 8) of byte y * rowBytes + floor(x / 8); x never reaches w.
PackedByte(img, k) ==
    LET rowBytes == CeilDiv8(img.width)
        y == k \div rowBytes
        x0 == (k % rowBytes) * 8
        Bit(j) == IF x0 + j < img.width
                  THEN PixelBit(img, x0 + j, y) * Pow2(7 - j) ELSE 0
    IN Bit(0) + Bit(1) + Bit(2) + Bit(3) + Bit(4) + Bit(5) + Bit(6) + Bit(7)

XtgHeaderSize == 22

imageDataToXtg(img) ==
    LET w == img.width
        h == img.height
        rowBytes == CeilDiv8(w)
        pixelData == [k \in 1..(rowBytes * h) |-> PackedByte(img, k - 1)]
        md5digest == [i \in 1..8 |->
                         IF i <= Min(8, Len(pixelData)) THEN pixelData[i] ELSE 0]
        b0 == Zeros(XtgHeaderSize + Len(pixelData))
        b1 == WriteAt(b0, 0, <<88, 84, 71, 0>>)
        b2 == WriteAt(b1, 4, U16LE(w))
        b3 == WriteAt(b2, 6, U16LE(h))
        b4 == WriteAt(b3, 10, U32LE(Len(pixelData)))
        b5 == WriteAt(b4, 14, md5digest)
    IN WriteAt(b5, XtgHeaderSize, pixelData)

----------------------------------------------------------------------------
(* XTC container writer: buildXtc (lib/xtc-format.ts) and the two copies   *)
(* of buildXtcFromRawPages (lib/merge.ts, lib/split.ts).                   *)

\* Device page size written into every index entry.
TARGET_WIDTH == DeviceW
TARGET_HEIGHT == DeviceH

XtcHeaderSize == 48
IndexEntrySize == 16

RECURSIVE SumLen(_)
SumLen(blobs) ==
    IF blobs = <<>> THEN 0 ELSE Len(Head(blobs)) + SumLen(Tail(blobs))

\* The header writes: magic, version 1, pageCount as uint16, zero flag
\* words, metadataOffset 0, indexOffset, dataOffset, reserved 0.
WriteXtcHeader(buf, pageCount, indexOffset, dataOffset) ==
    LET b1 == WriteAt(buf, 0, <<88, 84, 67, 0>>)
        b2 == WriteAt(b1, 4, U16LE(1))
        b3 == WriteAt(b2, 6, U16LE(pageCount))
        b4 == WriteAt(b3, 8, <<0, 0, 0, 0>>)
        b5 == WriteAt(b4, 12, U32LE(0))
        b6 == WriteAt(b5, 16, U64LE(0))
        b7 == WriteAt(b6, 24, U64LE(indexOffset))
        b8 == WriteAt(b7, 32, U64LE(dataOffset))
    IN WriteAt(b8, 40, U64LE(0))

\* The index loop from entry i (1-based) on, relOffset being the running
\* offset accumulator.
RECURSIVE WriteIndexEntries(_, _, _, _, _)
WriteIndexEntries(buf, xtgBlobs, i, indexOffset, relOffset) ==
    IF i > Len(xtgBlobs) THEN buf
    ELSE LET entryOffset == indexOffset + (i - 1) * IndexEntrySize
             b1 == WriteAt(buf, entryOffset, U64LE(relOffset))
             b2 == WriteAt(b1, entryOffset + 8, U32LE(Len(xtgBlobs[i])))
             b3 == WriteAt(b2, entryOffset + 12, U16LE(TARGET_WIDTH))
             b4 == WriteAt(b3, entryOffset + 14, U16LE(TARGET_HEIGHT))
         IN WriteIndexEntries(b4, xtgBlobs, i + 1, indexOffset,
                              relOffset + Len(xtgBlobs[i]))

\* The page data loop from blob i on, writeOffset being its accumulator.
RECURSIVE WritePageData(_, _, _, _)
WritePageData(buf, xtgBlobs, i, writeOffset) ==
    IF i > Len(xtgBlobs) THEN buf
    ELSE WritePageData(WriteAt(buf, writeOffset, xtgBlobs[i]), xtgBlobs,
                       i + 1, writeOffset + Len(xtgBlobs[i]))

\* A writer whose index offsets are relative to the data section.
buildXtcRelativeOffsets(pages) ==
    LET xtgBlobs == [i \in 1..Len(pages) |-> imageDataToXtg(pages[i])]
        pageCount == Len(xtgBlobs)
        indexOffset == XtcHeaderSize
        dataOffset == indexOffset + pageCount * IndexEntrySize
        b0 == Zeros(dataOffset + SumLen(xtgBlobs))
        b1 == WriteXtcHeader(b0, pageCount, indexOffset, dataOffset)
        b2 == WriteIndexEntries(b1, xtgBlobs, 1, indexOffset, 0)
    IN WritePageData(b2, xtgBlobs, 1, dataOffset)

\* buildXtc(pages): pages[i] is the ImageData getImageData returns for
\* page i's canvas.
buildXtc(pages) ==
    LET xtgBlobs == [i \in 1..Len(pages) |-> imageDataToXtg(pages[i])]
        pageCount == Len(xtgBlobs)
        indexOffset == XtcHeaderSize
        dataOffset == indexOffset + pageCount * IndexEntrySize
        totalSize == dataOffset + SumLen(xtgBlobs)
        b0 == Zeros(totalSize)
        b1 == WriteXtcHeader(b0, pageCount, indexOffset, dataOffset)
        b2 == WriteIndexEntries(b1, xtgBlobs, 1, indexOffset, dataOffset)
    IN WritePageData(b2, xtgBlobs, 1, dataOffset)

----------------------------------------------------------------------------
(* XTC container reader: parseXtcFile (lib/xtc-reader.ts).                 *)

NoHeader == [magic |-> <<>>, version |-> 0, pageCount |-> 0,
             indexOffset |-> 0, dataOffset |-> 0]

ParseFailure(msg) ==
    [ok |-> FALSE, error |-> msg, header |-> NoHeader, entries |-> <<>>,
     pageData |-> <<>>]

\* Not yet parsed.
NoParse == ParseFailure("none")

parseXtcHeader(buf) ==
    [magic |-> SubSeq(buf, 1, 3),
     version |-> GetU16(buf, 4),
     pageCount |-> GetU16(buf, 6),
     indexOffset |-> GetU64(buf, 24),
     dataOffset |-> GetU64(buf, 32)]

parseIndexEntry(buf, offset) ==
    [offset |-> GetU64(buf, offset),
     size |-> GetU32(buf, offset + 8),
     width |-> GetU16(buf, offset + 12),
     height |-> GetU16(buf, offset + 14)]

parseXtcFile(buf) ==
    IF Len(buf) < 4 THEN ParseFailure("RangeError")
    ELSE IF SubSeq(buf, 1, 3) # <<88, 84, 67>>
    THEN ParseFailure("Invalid XTC file: bad magic number")
    ELSE IF Len(buf) < 40 THEN ParseFailure("RangeError")
    ELSE
      LET header == parseXtcHeader(buf)
          indexOffset == header.indexOffset
      IN IF \E i \in 0..(header.pageCount - 1) :
                indexOffset + i * 16 + 16 > Len(buf)
         THEN ParseFailure("RangeError")
         ELSE
           LET entries == [i \in 1..header.pageCount |->
                              parseIndexEntry(buf, indexOffset + (i - 1) * 16)]
               pageData == [i \in 1..header.pageCount |->
                               SliceBuf(buf, entries[i].offset,
                                        entries[i].offset + entries[i].size)]
           IN [ok |-> TRUE, error |-> "", header |-> header,
               entries |-> entries, pageData |-> pageData]

----------------------------------------------------------------------------
(* Round trip: buildXtc, then parseXtcFile.                                *)

PageLists ==
    UNION {[1..n -> {ImageOf(p, TARGET_WIDTH, TARGET_HEIGHT) :
                        p \in 1..NumPatterns}] : n \in 0..MaxPages}

StartEnc ==
    /\ encPages \in PageLists
    /\ encBuffer = <<>>
    /\ encParsed = NoParse
    /\ encPc = "start"

IdleEnc ==
    /\ encPages = <<>>
    /\ encBuffer = <<>>
    /\ encParsed = NoParse
    /\ encPc = "off"

\* const buffer = await buildXtc(pages)
BuildXtc ==
    /\ encPc = "start"
    /\ encBuffer' = buildXtc(encPages)
    /\ encPc' = "built"
    /\ UNCHANGED <<encPages, encParsed>>
    /\ UNCHANGED <<mergeVars, splitVars, uiVars, pmVars, batchVars, procVars>>

\* const parsed = await parseXtcFile(buffer)
ParseXtc ==
    /\ encPc = "built"
    /\ encParsed' = parseXtcFile(encBuffer)
    /\ encPc' = "parsed"
    /\ UNCHANGED <<encPages, encBuffer>>
    /\ UNCHANGED <<mergeVars, splitVars, uiVars, pmVars, batchVars, procVars>>

NextEnc == BuildXtc \/ ParseXtc

\* C1: parsing the container buildXtc wrote for N pages (no metadata)
\* returns exactly N raw page blobs, and blob i is byte-identical to the XTG
\* encoding of page i on its own.
RoundTripRawBlobs ==
    encPc = "parsed" =>
        /\ encParsed.ok
        /\ Len(encParsed.pageData) = Len(encPages)
        /\ \A i \in 1..Len(encPages) :
               encParsed.pageData[i] = imageDataToXtg(encPages[i])

\* A container of several different pages has been written and read back.
RoundTripWitness ==
    /\ encPc = "parsed"
    /\ Len(encPages) >= 2
    /\ encPages[1] # encPages[2]
    /\ Len(encParsed.pageData) >= 2

----------------------------------------------------------------------------
(* XTG decoder: decodeXtgToCanvas (lib/xtc-reader.ts).                     *)

DecodeFailure(msg) ==
    [ok |-> FALSE, error |-> msg, width |-> 0, height |-> 0, data |-> <<>>]

\* Bit 7 - (x % 8) of byte y * rowBytes + floor(x / 8) of pixelData.
XtgBit(pixelData, w, x, y) ==
    (pixelData[y * CeilDiv8(w) + (x \div 8) + 1] \div Pow2(7 - (x % 8))) % 2

\* The canvas is modelled by the red channel of the ImageData put on it;
\* green and blue get the same value and alpha is 255.  A pixelData index
\* past the end of the view reads undefined, which gives bit 0.
decodeXtgToCanvas(xtgBuffer) ==
    IF SubSeq(xtgBuffer, 1, 3) # <<88, 84, 71>>
    THEN DecodeFailure("Invalid XTG data: bad magic number")
    ELSE IF Len(xtgBuffer) < 14 THEN DecodeFailure("RangeError")
    ELSE
      LET width == GetU16(xtgBuffer, 4)
          height == GetU16(xtgBuffer, 6)
          pixelDataSize == GetU32(xtgBuffer, 10)
      IN IF XtgHeaderSize + pixelDataSize > Len(xtgBuffer)
         THEN DecodeFailure("RangeError")
         ELSE
           LET pixelData == SubSeq(xtgBuffer, XtgHeaderSize + 1,
                                   XtgHeaderSize + pixelDataSize)
               Color(x, y) ==
                   IF y * CeilDiv8(width) + (x \div 8) + 1 > Len(pixelData)
                   THEN 0
                   ELSE IF XtgBit(pixelData, width, x, y) = 1 THEN 255 ELSE 0
           IN [ok |-> TRUE, error |-> "", width |-> width, height |-> height,
               data |-> [i \in 1..(width * height) |->
                            Color((i - 1) % width, (i - 1) \div width)]]

----------------------------------------------------------------------------
(* Merge: detectFileType, validateSameType, mergeFiles, mergeCbzFiles,     *)
(* mergePdfFiles, mergeXtcFiles, buildXtcFromRawPages (lib/merge.ts).      *)

\* A file name is the list of its dot-separated segments, so that
\* name.split('.').pop() is the last segment.
ToLowerCase(seg) ==
    CASE seg = "XTC" -> "xtc"
      [] seg = "CBZ" -> "cbz"
      [] seg = "PDF" -> "pdf"
      [] OTHER -> seg

detectFileType(file) ==
    LET ext == ToLowerCase(file.name[Len(file.name)])
    IN CASE ext = "cbz" -> "cbz"
         [] ext = "cbr" -> "cbr"
         [] ext = "pdf" -> "pdf"
         [] ext = "xtc" -> "xtc"
         [] OTHER -> "unknown"

\* A validation that looks at the first file only.
validateFirstTypeOnly(files) ==
    IF Len(files) = 0
    THEN [valid |-> FALSE, type |-> "unknown", error |-> "No files provided"]
    ELSE IF detectFileType(files[1]) = "unknown"
    THEN [valid |-> FALSE, type |-> "unknown", error |-> "Unsupported file type"]
    ELSE [valid |-> TRUE, type |-> detectFileType(files[1]), error |-> ""]

validateSameType(files) ==
    IF Len(files) = 0
    THEN [valid |-> FALSE, type |-> "unknown", error |-> "No files provided"]
    ELSE LET firstType == detectFileType(files[1])
         IN IF firstType = "unknown"
            THEN [valid |-> FALSE, type |-> "unknown",
                  error |-> "Unsupported file type"]
            ELSE IF \E i \in 2..Len(files) : detectFileType(files[i]) # firstType
            THEN [valid |-> FALSE, type |-> firstType,
                  error |-> "All files must be the same type"]
            ELSE [valid |-> TRUE, type |-> firstType, error |-> ""]

\* A raw writer whose first index entry points at the index itself.
buildXtcFromRawPagesNoIndexGap(xtgBlobs) ==
    LET pageCount == Len(xtgBlobs)
        indexOffset == XtcHeaderSize
        dataOffset == indexOffset + pageCount * IndexEntrySize
        totalSize == dataOffset + SumLen(xtgBlobs)
        b0 == Zeros(totalSize)
        b1 == WriteXtcHeader(b0, pageCount, indexOffset, dataOffset)
        b2 == WriteIndexEntries(b1, xtgBlobs, 1, indexOffset, indexOffset)
    IN WritePageData(b2, xtgBlobs, 1, dataOffset)

\* buildXtcFromRawPages of lib/merge.ts.
buildXtcFromRawPages(xtgBlobs) ==
    LET pageCount == Len(xtgBlobs)
        indexOffset == XtcHeaderSize
        dataOffset == indexOffset + pageCount * IndexEntrySize
        totalSize == dataOffset + SumLen(xtgBlobs)
        b0 == Zeros(totalSize)
        b1 == WriteXtcHeader(b0, pageCount, indexOffset, dataOffset)
        b2 == WriteIndexEntries(b1, xtgBlobs, 1, indexOffset, dataOffset)
    IN WritePageData(b2, xtgBlobs, 1, dataOffset)

\* extractXtcRawPages(buffer): the parse result, whose pageData is returned.
extractXtcRawPages(buffer) == parseXtcFile(buffer)

\* An accumulation that puts the pages of a later file first.
PrependPages(all, pages) == pages \o all

\* allXtgData.push(...rawPages), allCanvases.push(...canvases), ...
PushPages(all, pages) == all \o pages

\* A MergeProgress; pageProgress is the fraction num / den.
Progress(file, fileIdx, totalFiles, num, den) ==
    [file |-> file.name, fileIndex |-> fileIdx, totalFiles |-> totalFiles,
     num |-> num, den |-> den]

\* The per-page onProgress calls of one file with n pages:
\* pageProgress = (i + 1) / n for i = 0 .. n - 1.
PageEvents(file, fileIdx, totalFiles, n) ==
    [i \in 1..n |-> Progress(file, fileIdx, totalFiles, i, n)]

NoResult == [name |-> "", data |-> <<>>, archive |-> <<>>, size |-> 0,
             pageCount |-> 0]

\* The input files of the model.  An XTC file carries its bytes in data; a
\* CBZ or PDF file carries its image entries / pages in images, each a
\* canvas pattern, 0 standing for an image that fails to load.
XtcFile(name, pages) ==
    [name |-> name,
     data |-> buildXtc([i \in 1..Len(pages) |->
                           ImageOf(pages[i], TARGET_WIDTH, TARGET_HEIGHT)]),
     images |-> <<>>]

ArchiveFile(name, images) == [name |-> name, data |-> <<>>, images |-> images]

\* A container that lost its last byte: the index entry of its only page
\* then ends one byte beyond the end of the buffer.
DropLastByte(file) ==
    [file EXCEPT !.data = SubSeq(file.data, 1, Len(file.data) - 1)]

TruncatedXtc == DropLastByte(XtcFile(<<"t", "xtc">>, <<3>>))

\* A container of another producer: one page of 8 x 1 pixels, whose index
\* entry states the page's own width and height.
SmallPageXtc ==
    [name |-> <<"s", "xtc">>,
     data |-> WriteAt(buildXtc(<<ImageOf(3, 8, 1)>>), 60, <<8, 0, 1, 0>>),
     images |-> <<>>]

FilePool ==
    { XtcFile(<<"a", "xtc">>, <<3>>),
      SmallPageXtc,
      XtcFile(<<"b", "XTC">>, <<4, 2>>),
      [name |-> <<"bad", "xtc">>, data |-> <<88, 84, 71, 0>>, images |-> <<>>],
      TruncatedXtc,
      ArchiveFile(<<"c", "cbz">>, <<1, 3>>),
      ArchiveFile(<<"d", "cbz">>, <<0>>),
      ArchiveFile(<<"e", "pdf">>, <<2>>),
      ArchiveFile(<<"f", "cbr">>, <<1>>),
      ArchiveFile(<<"g", "txt">>, <<>>) }

OutputFormats == {"xtc", "cbz", "pdf"}

StartMerge ==
    /\ mFiles \in UNION {[1..n -> FilePool] : n \in 0..MaxFiles}
    /\ mFormat \in OutputFormats
    /\ mPc = "idle"
    /\ mIdx = 0
    /\ mAll = <<>>
    /\ mProgress = <<>>
    /\ mReads = <<>>
    /\ mResult = NoResult
    /\ mError = ""

IdleMerge ==
    /\ mFiles = <<>>
    /\ mFormat = "xtc"
    /\ mPc = "off"
    /\ mIdx = 0
    /\ mAll = <<>>
    /\ mProgress = <<>>
    /\ mReads = <<>>
    /\ mResult = NoResult
    /\ mError = ""

MergeFail(msg) ==
    /\ mPc' = "failed"
    /\ mError' = msg
    /\ UNCHANGED <<mFiles, mFormat, mIdx, mAll, mResult>>

MergeDone(result) ==
    /\ mPc' = "done"
    /\ mResult' = result
    /\ UNCHANGED <<mFiles, mFormat, mIdx, mAll, mProgress, mReads, mError>>

\* mergeFiles up to the call of the merge function of the detected type.
MergeFiles ==
    /\ mPc = "idle"
    /\ LET validation == validateSameType(mFiles)
       IN IF ~validation.valid
          THEN MergeFail(validation.error) /\ UNCHANGED <<mProgress, mReads>>
          ELSE IF validation.type \notin {"cbz", "pdf", "xtc"}
          THEN MergeFail("Unsupported file type")
               /\ UNCHANGED <<mProgress, mReads>>
          ELSE /\ mPc' = CASE validation.type = "cbz" -> "cbz"
                           [] validation.type = "pdf" ->
                                IF mFormat = "pdf" THEN "pdfCopy" ELSE "pdfRender"
                           [] OTHER ->
                                IF mFormat = "xtc" THEN "xtcRaw" ELSE "xtcDecode"
               /\ UNCHANGED <<mFiles, mFormat, mIdx, mAll, mProgress, mReads,
                              mResult, mError>>
    /\ UNCHANGED <<encVars, splitVars, uiVars, pmVars, batchVars, procVars>>

\* One iteration of the fast path loop of mergeXtcFiles.
MergeXtcRawStep ==
    /\ mPc = "xtcRaw"
    /\ mIdx < Len(mFiles)
    /\ LET file == mFiles[mIdx + 1]
           rawPages == extractXtcRawPages(file.data)
           p0 == Progress(file, mIdx, Len(mFiles), 0, 1)
           p1 == Progress(file, mIdx, Len(mFiles), 1, 1)
       IN /\ mReads' = Append(mReads, mIdx)
          /\ IF ~rawPages.ok
             THEN /\ MergeFail(rawPages.error)
                  /\ mProgress' = Append(mProgress, p0)
             ELSE /\ mAll' = PushPages(mAll, rawPages.pageData)
                  /\ mProgress' = mProgress \o <<p0, p1>>
                  /\ mIdx' = mIdx + 1
                  /\ UNCHANGED <<mFiles, mFormat, mPc, mResult, mError>>
    /\ UNCHANGED <<encVars, splitVars, uiVars, pmVars, batchVars, procVars>>

\* The fast path after its loop: buildXtcFromRawPages and the result.
MergeXtcRawBuild ==
    /\ mPc = "xtcRaw"
    /\ mIdx = Len(mFiles)
    /\ LET data == buildXtcFromRawPages(mAll)
       IN MergeDone([name |-> "merged.xtc", data |-> data, archive |-> <<>>,
                     size |-> Len(data), pageCount |-> Len(mAll)])
    /\ UNCHANGED <<encVars, splitVars, uiVars, pmVars, batchVars, procVars>>

\* One iteration of the decoding loop of mergeXtcFiles (extractXtcPages).
MergeXtcDecodeStep ==
    /\ mPc = "xtcDecode"
    /\ mIdx < Len(mFiles)
    /\ LET file == mFiles[mIdx + 1]
           parsed == parseXtcFile(file.data)
           canvases == [i \in 1..Len(parsed.pageData) |->
                           decodeXtgToCanvas(parsed.pageData[i])]
           p0 == Progress(file, mIdx, Len(mFiles), 0, 1)
           p1 == Progress(file, mIdx, Len(mFiles), 1, 1)
       IN /\ mReads' = Append(mReads, mIdx)
          /\ IF ~parsed.ok
             THEN /\ MergeFail(parsed.error)
                  /\ mProgress' = Append(mProgress, p0)
             ELSE IF \E i \in 1..Len(canvases) : ~canvases[i].ok
             THEN /\ MergeFail("Invalid XTG data: bad magic number")
                  /\ mProgress' = Append(mProgress, p0)
             ELSE /\ mAll' = PushPages(mAll, canvases)
                  /\ mProgress' = mProgress \o <<p0, p1>>
                  /\ mIdx' = mIdx + 1
                  /\ UNCHANGED <<mFiles, mFormat, mPc, mResult, mError>>
    /\ UNCHANGED <<encVars, splitVars, uiVars, pmVars, batchVars, procVars>>

\* The CBZ result any merge builds from its collected images (buildCbz);
\* the archive writer is external, the archive is the list of its entries.
CbzResult(images) ==
    [name |-> "merged.cbz", data |-> <<>>, archive |-> images, size |-> 0,
     pageCount |-> Len(images)]

\* The XTC result a merge builds from resized canvases (buildXtc).
XtcResult(canvases) ==
    LET data == buildXtc(canvases)
    IN [name |-> "merged.xtc", data |-> data, archive |-> <<>>,
        size |-> Len(data), pageCount |-> Len(canvases)]

MergeXtcDecodeBuild ==
    /\ mPc = "xtcDecode"
    /\ mIdx = Len(mFiles)
    /\ MergeDone(CbzResult(mAll))
    /\ UNCHANGED <<encVars, splitVars, uiVars, pmVars, batchVars, procVars>>

\* One iteration of the file loop of mergeCbzFiles: progress 0, load the
\* archive, then one progress call per image entry.
MergeCbzStep ==
    /\ mPc = "cbz"
    /\ mIdx < Len(mFiles)
    /\ LET file == mFiles[mIdx + 1]
           n == Len(file.images)
       IN /\ mReads' = Append(mReads, mIdx)
          /\ mAll' = PushPages(mAll, file.images)
          /\ mProgress' = (Append(mProgress,
                                  Progress(file, mIdx, Len(mFiles), 0, 1)))
                              \o PageEvents(file, mIdx, Len(mFiles), n)
          /\ mIdx' = mIdx + 1
    /\ UNCHANGED <<mFiles, mFormat, mPc, mResult, mError>>
    /\ UNCHANGED <<encVars, splitVars, uiVars, pmVars, batchVars, procVars>>

\* resizeCanvasForXtc(canvas): a device-sized canvas showing the image.
resizeCanvasForXtc(pattern) == ImageOf(pattern, TARGET_WIDTH, TARGET_HEIGHT)

\* mergeCbzFiles after its loop: buildCbz, or imageBlobsToCanvases (which
\* rejects at the first image that fails to load) and buildXtc.
MergeCbzBuild ==
    /\ mPc = "cbz"
    /\ mIdx = Len(mFiles)
    /\ IF mFormat = "cbz"
       THEN MergeDone(CbzResult(mAll))
       ELSE LET total == Len(mAll)
                bad == {i \in 1..total : mAll[i] = 0}
                loaded == IF bad = {} THEN total
                          ELSE (CHOOSE i \in bad : \A j \in bad : i <= j) - 1
                last == [name |-> <<"Converting to XTC">>]
                events == [i \in 1..loaded |->
                              Progress(last, Len(mFiles) - 1, Len(mFiles),
                                       i, total)]
            IN IF bad # {}
               THEN /\ MergeFail("Failed to load image")
                    /\ mProgress' = mProgress \o events
                    /\ UNCHANGED mReads
               ELSE /\ mPc' = "done"
                    /\ mResult' = XtcResult([i \in 1..total |->
                                               resizeCanvasForXtc(mAll[i])])
                    /\ mProgress' = mProgress \o events
                    /\ UNCHANGED <<mFiles, mFormat, mIdx, mAll, mReads, mError>>
    /\ UNCHANGED <<encVars, splitVars, uiVars, pmVars, batchVars, procVars>>

\* One iteration of the pdf-lib loop of mergePdfFiles (PDF output).
MergePdfCopyStep ==
    /\ mPc = "pdfCopy"
    /\ mIdx < Len(mFiles)
    /\ LET file == mFiles[mIdx + 1]
       IN /\ mReads' = Append(mReads, mIdx)
          /\ mAll' = PushPages(mAll, file.images)
          /\ mProgress' = mProgress \o
                 <<Progress(file, mIdx, Len(mFiles), 0, 1),
                   Progress(file, mIdx, Len(mFiles), 1, 1)>>
          /\ mIdx' = mIdx + 1
    /\ UNCHANGED <<mFiles, mFormat, mPc, mResult, mError>>
    /\ UNCHANGED <<encVars, splitVars, uiVars, pmVars, batchVars, procVars>>

MergePdfCopyBuild ==
    /\ mPc = "pdfCopy"
    /\ mIdx = Len(mFiles)
    /\ MergeDone([name |-> "merged.pdf", data |-> <<>>, archive |-> mAll,
                  size |-> 0, pageCount |-> Len(mAll)])
    /\ UNCHANGED <<encVars, splitVars, uiVars, pmVars, batchVars, procVars>>

\* One iteration of the rendering loop of mergePdfFiles: progress 0, open
\* the document, then render every page, one progress call per page.
MergePdfRenderStep ==
    /\ mPc = "pdfRender"
    /\ mIdx < Len(mFiles)
    /\ LET file == mFiles[mIdx + 1]
           numPages == Len(file.images)
       IN /\ mReads' = Append(mReads, mIdx)
          /\ mAll' = PushPages(mAll, file.images)
          /\ mProgress' = (Append(mProgress,
                                  Progress(file, mIdx, Len(mFiles), 0, 1)))
                              \o PageEvents(file, mIdx, Len(mFiles), numPages)
          /\ mIdx' = mIdx + 1
    /\ UNCHANGED <<mFiles, mFormat, mPc, mResult, mError>>
    /\ UNCHANGED <<encVars, splitVars, uiVars, pmVars, batchVars, procVars>>

MergePdfRenderBuild ==
    /\ mPc = "pdfRender"
    /\ mIdx = Len(mFiles)
    /\ IF mFormat = "cbz"
       THEN MergeDone(CbzResult(mAll))
       ELSE MergeDone(XtcResult([i \in 1..Len(mAll) |->
                                    resizeCanvasForXtc(mAll[i])]))
    /\ UNCHANGED <<encVars, splitVars, uiVars, pmVars, batchVars, procVars>>

NextMerge ==
    \/ MergeFiles
    \/ MergeXtcRawStep
    \/ MergeXtcRawBuild
    \/ MergeXtcDecodeStep
    \/ MergeXtcDecodeBuild
    \/ MergeCbzStep
    \/ MergeCbzBuild
    \/ MergePdfCopyStep
    \/ MergePdfCopyBuild
    \/ MergePdfRenderStep
    \/ MergePdfRenderBuild

\* The raw page blobs of all of files, in file order and page order.
RECURSIVE AllRawPages(_)
AllRawPages(files) ==
    IF files = <<>> THEN <<>>
    ELSE parseXtcFile(Head(files).data).pageData \o AllRawPages(Tail(files))

\* C2: an XTC to XTC merge (raw fast path) yields a container whose pages
\* are the inputs' raw page blobs in input-file order and page order, byte
\* for byte, and whose page count is the sum of the inputs' page counts.
MergeRawPreservesPages ==
    (mPc = "done" /\ mFormat = "xtc" /\ validateSameType(mFiles).type = "xtc")
        => LET merged == parseXtcFile(mResult.data)
           IN /\ merged.ok
              /\ merged.pageData = AllRawPages(mFiles)
              /\ merged.header.pageCount = Len(AllRawPages(mFiles))
              /\ mResult.pageCount = Len(AllRawPages(mFiles))

\* Two different containers, the second with two pages, have been merged.
MergeRawWitness ==
    /\ mPc = "done"
    /\ mFormat = "xtc"
    /\ Len(mFiles) = 2
    /\ mFiles[1] # mFiles[2]
    /\ detectFileType(mFiles[1]) = "xtc"
    /\ Len(parseXtcFile(mFiles[2].data).pageData) = 2
    /\ Len(parseXtcFile(mResult.data).pageData) = 3

\* The detected types of the list are not one single known type.
MixedOrUnknownTypes(files) ==
    \/ Len(files) = 0
    \/ \E i \in 1..Len(files) : detectFileType(files[i]) = "unknown"
    \/ \E i, j \in 1..Len(files) :
           detectFileType(files[i]) # detectFileType(files[j])

\* C5: mergeFiles rejects an input list whose detected types are not all
\* identical (and an empty list, and an unknown type) before any file is
\* read and before any progress callback fires, and produces no result.
MergeRejectsMixedTypes ==
    (mPc \notin {"off", "idle"} /\ MixedOrUnknownTypes(mFiles))
        => /\ mPc = "failed"
           /\ mError # ""
           /\ mReads = <<>>
           /\ mProgress = <<>>
           /\ mResult = NoResult

\* A list of two known but different types has been rejected.
MergeRejectsWitness ==
    /\ mPc = "failed"
    /\ Len(mFiles) = 2
    /\ detectFileType(mFiles[1]) = "xtc"
    /\ detectFileType(mFiles[2]) = "cbz"
    /\ mError = "All files must be the same type"

----------------------------------------------------------------------------
(* Split: splitFile, splitCbzFile, splitPdfFile, splitXtcFile and the      *)
(* private decodeXtgToCanvas and buildXtcFromRawPages of lib/split.ts;     *)
(* splitPdf of lib/merge.ts.                                               *)

Max(a, b) == IF a > b THEN a ELSE b

\* Array.prototype.slice(begin, end): a negative index counts from the end,
\* both ends are clamped to the array.
ArraySlice(arr, begin, end) ==
    LET len == Len(arr)
        k == IF begin < 0 THEN Max(len + begin, 0) ELSE Min(begin, len)
        final == IF end < 0 THEN Max(len + end, 0) ELSE Min(end, len)
    IN SubSeq(arr, k + 1, final)

\* A slice that forgets that ranges are 1-indexed.
SliceFromStart(pageData, range) ==
    ArraySlice(pageData, range.start, range.end)

\* parsed.pageData.slice(range.start - 1, range.end)
SliceRange(pageData, range) ==
    ArraySlice(pageData, range.start - 1, range.end)

\* decodeXtgToCanvas of lib/split.ts: it does not look at the magic.
splitDecodeXtgToCanvas(xtgBuffer) ==
    IF Len(xtgBuffer) < 14 THEN DecodeFailure("RangeError")
    ELSE
      LET width == GetU16(xtgBuffer, 4)
          height == GetU16(xtgBuffer, 6)
          pixelDataSize == GetU32(xtgBuffer, 10)
      IN IF XtgHeaderSize + pixelDataSize > Len(xtgBuffer)
         THEN DecodeFailure("RangeError")
         ELSE
           LET pixelData == SubSeq(xtgBuffer, XtgHeaderSize + 1,
                                   XtgHeaderSize + pixelDataSize)
               Color(x, y) ==
                   IF y * CeilDiv8(width) + (x \div 8) + 1 > Len(pixelData)
                   THEN 0
                   ELSE IF XtgBit(pixelData, width, x, y) = 1 THEN 255 ELSE 0
           IN [ok |-> TRUE, error |-> "", width |-> width, height |-> height,
               data |-> [i \in 1..(width * height) |->
                            Color((i - 1) % width, (i - 1) \div width)]]

\* buildXtcFromRawPages of lib/split.ts; the bytes it does not write stay 0.
splitBuildXtcFromRawPages(xtgBlobs) ==
    LET pageCount == Len(xtgBlobs)
        indexOffset == XtcHeaderSize
        dataOffset == indexOffset + pageCount * IndexEntrySize
        totalSize == dataOffset + SumLen(xtgBlobs)
        b0 == Zeros(totalSize)
        b1 == WriteAt(b0, 0, <<88, 84, 67, 0>>)
        b2 == WriteAt(b1, 4, U16LE(1))
        b3 == WriteAt(b2, 6, U16LE(pageCount))
        b4 == WriteAt(b3, 24, U64LE(indexOffset))
        b5 == WriteAt(b4, 32, U64LE(dataOffset))
        b6 == WriteIndexEntries(b5, xtgBlobs, 1, indexOffset, dataOffset)
    IN WritePageData(b6, xtgBlobs, 1, dataOffset)

\* A SplitProgress; pageProgress is the fraction num / den.
SplitProgress(phase, rangeIdx, totalRanges, num, den) ==
    [phase |-> phase, rangeIndex |-> rangeIdx, totalRanges |-> totalRanges,
     num |-> num, den |-> den]

\* segs joined by dots.
RECURSIVE JoinDots(_)
JoinDots(segs) ==
    IF Len(segs) = 0 THEN ""
    ELSE IF Len(segs) = 1 THEN segs[1]
    ELSE segs[1] \o "." \o JoinDots(Tail(segs))

\* file.name.replace(/\.<ext>$/i, ''), ext being the detected type.
BaseName(file) ==
    IF Len(file.name) >= 2
       /\ ToLowerCase(file.name[Len(file.name)]) = detectFileType(file)
    THEN JoinDots(SubSeq(file.name, 1, Len(file.name) - 1))
    ELSE JoinDots(file.name)

\* `${baseName}_part${rangeIdx + 1}.<ext>`
PartName(file, part, ext) ==
    BaseName(file) \o "_part" \o ToString(part) \o "." \o ext

\* One SplitResult; part is rangeIdx + 1.  An XTC output carries its bytes
\* in data, a CBZ or PDF output the list of its entries in archive.
SplitResult(part, ext, data, archive, pageCount) ==
    [name |-> PartName(sFile, part, ext), data |-> data, archive |-> archive,
     size |-> Len(data), pageCount |-> pageCount]

\* A container whose only page is a well-formed raster blob under the
\* magic "XTH" in place of "XTG".
ForeignPageXtc ==
    [name |-> <<"h", "xtc">>,
     data |-> splitBuildXtcFromRawPages(
                  <<WriteAt(imageDataToXtg(ImageOf(3, TARGET_WIDTH,
                                                   TARGET_HEIGHT)),
                            2, <<72>>)>>),
     images |-> <<>>]

SplitPool ==
    { XtcFile(<<"a", "xtc">>, <<3, 4, 2>>),
      XtcFile(<<"b", "XTC">>, <<4, 2>>),
      [name |-> <<"bad", "xtc">>, data |-> <<88, 84, 71, 0>>, images |-> <<>>],
      ForeignPageXtc,
      ArchiveFile(<<"c", "cbz">>, <<1, 3, 2>>),
      ArchiveFile(<<"d", "cbz">>, <<4, 0>>),
      ArchiveFile(<<"e", "pdf">>, <<2, 1>>),
      ArchiveFile(<<"g", "txt">>, <<>>) }

PageRanges ==
    {[start |-> a, end |-> b] : a \in 0..MaxRangePage, b \in 1..MaxRangePage}

StartSplit ==
    /\ sFile \in SplitPool
    /\ sRanges \in UNION {[1..n -> PageRanges] : n \in 0..MaxRanges}
    /\ sFormat \in OutputFormats
    /\ sPc = "idle"
    /\ sIdx = 0
    /\ sParsed = NoParse
    /\ sResults = <<>>
    /\ sReturned = <<>>
    /\ sProgress = <<>>
    /\ sError = ""

IdleSplit ==
    /\ sFile = ArchiveFile(<<"none">>, <<>>)
    /\ sRanges = <<>>
    /\ sFormat = "xtc"
    /\ sPc = "off"
    /\ sIdx = 0
    /\ sParsed = NoParse
    /\ sResults = <<>>
    /\ sReturned = <<>>
    /\ sProgress = <<>>
    /\ sError = ""

SplitFail(msg) ==
    /\ sPc' = "failed"
    /\ sError' = msg
    /\ UNCHANGED <<sFile, sRanges, sFormat, sIdx, sParsed, sResults, sReturned>>

\* results.push(...) at the end of one loop iteration.
SplitPush(result, events) ==
    /\ sResults' = Append(sResults, result)
    /\ sProgress' = sProgress \o events
    /\ sIdx' = sIdx + 1
    /\ UNCHANGED <<sFile, sRanges, sFormat, sPc, sParsed, sReturned, sError>>

\* splitFile up to the first loop of the split function of the detected
\* type; splitXtcFile parses the input before its loop.
SplitFile ==
    /\ sPc = "idle"
    /\ LET type == detectFileType(sFile)
           parsed == parseXtcFile(sFile.data)
       IN IF type \notin {"cbz", "pdf", "xtc"}
          THEN SplitFail("Unsupported file type") /\ UNCHANGED sProgress
          ELSE IF type = "xtc" /\ ~parsed.ok
          THEN SplitFail(parsed.error) /\ UNCHANGED sProgress
          ELSE /\ sPc' = CASE type = "cbz" -> "cbz"
                           [] type = "pdf" ->
                                IF sFormat = "pdf" THEN "pdfCopy" ELSE "pdfRender"
                           [] OTHER -> "xtc"
               /\ sParsed' = IF type = "xtc" THEN parsed ELSE NoParse
               /\ UNCHANGED <<sFile, sRanges, sFormat, sIdx, sResults,
                              sReturned, sProgress, sError>>
    /\ UNCHANGED <<encVars, mergeVars, uiVars, pmVars, batchVars, procVars>>

\* One iteration of the range loop of splitXtcFile.
SplitXtcStep ==
    /\ sPc = "xtc"
    /\ sIdx < Len(sRanges)
    /\ LET range == sRanges[sIdx + 1]
           total == Len(sRanges)
           rangePages == SliceRange(sParsed.pageData, range)
           canvases == [i \in 1..Len(rangePages) |->
                           splitDecodeXtgToCanvas(rangePages[i])]
           p0 == SplitProgress("building", sIdx, total, 1, 2)
           p1 == SplitProgress("building", sIdx, total, 1, 1)
       IN IF sFormat = "xtc"
          THEN SplitPush(SplitResult(sIdx + 1, "xtc",
                                     splitBuildXtcFromRawPages(rangePages),
                                     <<>>, Len(rangePages)),
                         <<p0, p1>>)
          ELSE IF \E i \in 1..Len(canvases) : ~canvases[i].ok
          THEN SplitFail("RangeError") /\ sProgress' = Append(sProgress, p0)
          ELSE SplitPush(SplitResult(sIdx + 1, "cbz", <<>>, canvases,
                                     Len(canvases)),
                         <<p0, p1>>)
    /\ UNCHANGED <<encVars, mergeVars, uiVars, pmVars, batchVars, procVars>>

\* One iteration of the range loop of splitCbzFile.  imageFiles[i] is
\* undefined past the last image, and reading its entry throws.
SplitCbzStep ==
    /\ sPc = "cbz"
    /\ sIdx < Len(sRanges)
    /\ LET range == sRanges[sIdx + 1]
           total == Len(sRanges)
           pageCount == range.end - range.start + 1
           imageFiles == sFile.images
           wanted == (range.start - 1)..(range.end - 1)
           missing == {i \in wanted : i < 0 \/ i >= Len(imageFiles)}
           got == IF missing = {} THEN Max(pageCount, 0)
                  ELSE (CHOOSE i \in missing : \A j \in missing : i <= j)
                           - (range.start - 1)
           rangeImages == [k \in 1..got |-> imageFiles[range.start - 1 + k]]
           events == <<SplitProgress("building", sIdx, total, 0, 1)>>
                       \o [k \in 1..got |->
                              SplitProgress("building", sIdx, total, k, pageCount)]
       IN IF missing # {}
          THEN SplitFail("TypeError") /\ sProgress' = sProgress \o events
          ELSE IF sFormat = "cbz"
          THEN SplitPush(SplitResult(sIdx + 1, "cbz", <<>>, rangeImages,
                                     Len(rangeImages)), events)
          ELSE IF \E k \in 1..got : rangeImages[k] = 0
          THEN SplitFail("Failed to load image")
               /\ sProgress' = sProgress \o events
          ELSE SplitPush(SplitResult(sIdx + 1, "xtc",
                                     buildXtc([k \in 1..got |->
                                         resizeCanvasForXtc(rangeImages[k])]),
                                     <<>>, got), events)
    /\ UNCHANGED <<encVars, mergeVars, uiVars, pmVars, batchVars, procVars>>

\* splitPdfFile with PDF output: splitPdf copies the pages of every range
\* (copyPages throws on a page index outside the document), then the
\* results loop runs and the results are returned.
SplitPdfCopy ==
    /\ sPc = "pdfCopy"
    /\ LET total == Len(sRanges)
           numPages == Len(sFile.images)
           p0 == SplitProgress("extracting", 0, total, 0, 1)
           Indices(r) == (r.start - 1)..(r.end - 1)
           Copied(r) == [k \in 1..Max(r.end - r.start + 1, 0) |->
                            sFile.images[r.start - 1 + k]]
           results == [n \in 1..total |->
                          SplitResult(n, "pdf", <<>>, Copied(sRanges[n]),
                                      Len(Copied(sRanges[n])))]
       IN IF \E n \in 1..total : \E i \in Indices(sRanges[n]) :
                 i < 0 \/ i >= numPages
          THEN SplitFail("Invalid page index")
               /\ sProgress' = Append(sProgress, p0)
          ELSE /\ sResults' = results
               /\ sReturned' = results
               /\ sProgress' = (Append(sProgress, p0))
                                 \o [n \in 1..total |->
                                        SplitProgress("building", n - 1, total, 1, 1)]
               /\ sIdx' = total
               /\ sPc' = "done"
               /\ UNCHANGED <<sFile, sRanges, sFormat, sParsed, sError>>
    /\ UNCHANGED <<encVars, mergeVars, uiVars, pmVars, batchVars, procVars>>

\* One iteration of the rendering loop of splitPdfFile; pdf.getPage rejects
\* for a page number outside 1..numPages.
SplitPdfRenderStep ==
    /\ sPc = "pdfRender"
    /\ sIdx < Len(sRanges)
    /\ LET range == sRanges[sIdx + 1]
           total == Len(sRanges)
           pageCount == range.end - range.start + 1
           numPages == Len(sFile.images)
           missing == {n \in range.start..range.end : n < 1 \/ n > numPages}
           got == IF missing = {} THEN Max(pageCount, 0)
                  ELSE (CHOOSE n \in missing : \A j \in missing : n <= j)
                           - range.start
           rangeCanvases == [k \in 1..got |-> sFile.images[range.start - 1 + k]]
           events == <<SplitProgress("building", sIdx, total, 0, 1)>>
                       \o [k \in 1..got |->
                              SplitProgress("building", sIdx, total, k, pageCount)]
       IN IF missing # {}
          THEN SplitFail("Invalid page request")
               /\ sProgress' = sProgress \o events
          ELSE IF sFormat = "cbz"
          THEN SplitPush(SplitResult(sIdx + 1, "cbz", <<>>, rangeCanvases, got),
                         events)
          ELSE SplitPush(SplitResult(sIdx + 1, "xtc",
                                     buildXtc([k \in 1..got |->
                                         resizeCanvasForXtc(rangeCanvases[k])]),
                                     <<>>, got), events)
    /\ UNCHANGED <<encVars, mergeVars, uiVars, pmVars, batchVars, procVars>>

\* return results
SplitReturn ==
    /\ sPc \in {"xtc", "cbz", "pdfRender"}
    /\ sIdx = Len(sRanges)
    /\ sPc' = "done"
    /\ sReturned' = sResults
    /\ UNCHANGED <<sFile, sRanges, sFormat, sIdx, sParsed, sResults, sProgress,
                   sError>>
    /\ UNCHANGED <<encVars, mergeVars, uiVars, pmVars, batchVars, procVars>>

NextSplit ==
    \/ SplitFile
    \/ SplitXtcStep
    \/ SplitCbzStep
    \/ SplitPdfCopy
    \/ SplitPdfRenderStep
    \/ SplitReturn

\* 1 <= start <= end <= totalPages
ValidRange(range, totalPages) ==
    1 <= range.start /\ range.start <= range.end /\ range.end <= totalPages

\* C3: splitting an XTC container to XTC output with valid ranges
\* (overlapping allowed) yields one output per range, in range order;
\* output k has end_k - start_k + 1 pages and its page j is byte-identical
\* to source page start_k + j - 1.
SplitRawSlices ==
    (/\ sPc = "done"
     /\ detectFileType(sFile) = "xtc"
     /\ sFormat = "xtc"
     /\ \A k \in 1..Len(sRanges) :
            ValidRange(sRanges[k], parseXtcFile(sFile.data).header.pageCount))
        => /\ Len(sReturned) = Len(sRanges)
           /\ \A k \in 1..Len(sRanges) :
                LET out == parseXtcFile(sReturned[k].data)
                    src == parseXtcFile(sFile.data).pageData
                    n == sRanges[k].end - sRanges[k].start + 1
                IN /\ sReturned[k].name = PartName(sFile, k, "xtc")
                   /\ out.ok
                   /\ sReturned[k].pageCount = n
                   /\ Len(out.pageData) = n
                   /\ \A j \in 1..n :
                          out.pageData[j] = src[sRanges[k].start + j - 1]

\* A three-page container has been split by two overlapping valid ranges.
SplitRawWitness ==
    /\ sPc = "done"
    /\ detectFileType(sFile) = "xtc"
    /\ sFormat = "xtc"
    /\ sRanges = <<[start |-> 1, end |-> 2], [start |-> 2, end |-> 2]>>
    /\ Len(sReturned) = 2
    /\ Len(parseXtcFile(sReturned[1].data).pageData) = 2

----------------------------------------------------------------------------
(* Page ranges: parsePageRanges, calculateEqualParts (lib/split.ts).       *)

\* A string is the list of its characters.
DigitValue(c) ==
    CASE c = "0" -> 0 [] c = "1" -> 1 [] c = "2" -> 2 [] c = "3" -> 3
      [] c = "4" -> 4 [] c = "5" -> 5 [] c = "6" -> 6 [] c = "7" -> 7
      [] c = "8" -> 8 [] c = "9" -> 9 [] OTHER -> -1

IsDigit(c) == DigitValue(c) >= 0

RECURSIVE TrimStart(_)
TrimStart(str) ==
    IF str # <<>> /\ Head(str) = " " THEN TrimStart(Tail(str)) ELSE str

RECURSIVE TrimEnd(_)
TrimEnd(str) ==
    IF str # <<>> /\ str[Len(str)] = " "
    THEN TrimEnd(SubSeq(str, 1, Len(str) - 1)) ELSE str

\* String.prototype.trim
Trim(str) == TrimEnd(TrimStart(str))

\* String.prototype.includes(ch)
Includes(str, ch) == \E i \in 1..Len(str) : str[i] = ch

\* String.prototype.split(sep): the pieces between the separators, empty
\* pieces included.
RECURSIVE StrSplit(_, _)
StrSplit(str, sep) ==
    IF ~Includes(str, sep) THEN <<str>>
    ELSE LET i == CHOOSE k \in 1..Len(str) :
                      str[k] = sep /\ \A j \in 1..(k - 1) : str[j] # sep
         IN <<SubSeq(str, 1, i - 1)>>
                \o StrSplit(SubSeq(str, i + 1, Len(str)), sep)

\* The value of parseInt when no digit is found.
NaN == -1

\* The digits of str read from the left, acc being the value so far.
RECURSIVE DigitsValue(_, _)
DigitsValue(str, acc) ==
    IF str = <<>> \/ ~IsDigit(Head(str)) THEN acc
    ELSE DigitsValue(Tail(str), acc * 10 + DigitValue(Head(str)))

\* parseInt(str, 10): leading white space is skipped, the longest prefix of
\* digits is read; NaN when there is none.  The strings parsePageRanges
\* passes contain no sign: they are pieces of a split on '-'.
parseInt(str) ==
    LET t == TrimStart(str)
    IN IF t = <<>> \/ ~IsDigit(Head(t)) THEN NaN ELSE DigitsValue(t, 0)

\* input.split(',').map(s => s.trim()).filter(s => s.length > 0)
RangeParts(input) ==
    LET pieces == StrSplit(input, ",")
    IN SelectSeq([i \in 1..Len(pieces) |-> Trim(pieces[i])],
                 LAMBDA part : Len(part) > 0)

\* The start and end a part stands for: [startStr, endStr] of the split on
\* '-', or the page itself.
PartStart(part) ==
    IF Includes(part, "-") THEN parseInt(Trim(StrSplit(part, "-")[1]))
    ELSE parseInt(part)

PartEnd(part) ==
    IF Includes(part, "-") THEN parseInt(Trim(StrSplit(part, "-")[2]))
    ELSE parseInt(part)

RangesFailure(msg) == [ok |-> FALSE, error |-> msg, ranges |-> <<>>]

\* A parser that leaves an invalid part out instead of throwing.
RECURSIVE ParsePartsSkipping(_, _, _, _)
ParsePartsSkipping(parts, i, totalPages, ranges) ==
    IF i > Len(parts) THEN [ok |-> TRUE, error |-> "", ranges |-> ranges]
    ELSE LET start == PartStart(parts[i])
             end == PartEnd(parts[i])
         IN IF start = NaN \/ end = NaN \/ start < 1 \/ end > totalPages
               \/ start > end
            THEN ParsePartsSkipping(parts, i + 1, totalPages, ranges)
            ELSE ParsePartsSkipping(parts, i + 1, totalPages,
                     Append(ranges, [start |-> start, end |-> end]))

parsePageRangesSkipping(input, totalPages) ==
    ParsePartsSkipping(RangeParts(input), 1, totalPages, <<>>)

\* The loop of parsePageRanges from part i on.
RECURSIVE ParseParts(_, _, _, _)
ParseParts(parts, i, totalPages, ranges) ==
    IF i > Len(parts) THEN [ok |-> TRUE, error |-> "", ranges |-> ranges]
    ELSE LET part == parts[i]
         IN IF Includes(part, "-")
            THEN LET start == parseInt(Trim(StrSplit(part, "-")[1]))
                     end == parseInt(Trim(StrSplit(part, "-")[2]))
                 IN IF start = NaN \/ end = NaN
                    THEN RangesFailure("Invalid range")
                    ELSE IF start < 1 \/ end > totalPages \/ start > end
                    THEN RangesFailure("Invalid range (total pages)")
                    ELSE ParseParts(parts, i + 1, totalPages,
                             Append(ranges, [start |-> start, end |-> end]))
            ELSE LET page == parseInt(part)
                 IN IF page = NaN \/ page < 1 \/ page > totalPages
                    THEN RangesFailure("Invalid page")
                    ELSE ParseParts(parts, i + 1, totalPages,
                             Append(ranges, [start |-> page, end |-> page]))

parsePageRanges(input, totalPages) ==
    ParseParts(RangeParts(input), 1, totalPages, <<>>)

\* The loop of calculateEqualParts from part i (0-based) on.
RECURSIVE EqualPartsFrom(_, _, _, _, _)
EqualPartsFrom(i, parts, pagesPerPart, remainder, currentPage) ==
    IF i >= parts THEN <<>>
    ELSE LET pagesInThisPart == pagesPerPart + (IF i < remainder THEN 1 ELSE 0)
         IN <<[start |-> currentPage,
               end |-> currentPage + pagesInThisPart - 1]>>
                \o EqualPartsFrom(i + 1, parts, pagesPerPart, remainder,
                                  currentPage + pagesInThisPart)

calculateEqualPartsNoRemainder(totalPages, parts) ==
    IF parts < 1 THEN RangesFailure("Must have at least 1 part")
    ELSE IF parts > totalPages THEN RangesFailure("Cannot split")
    ELSE [ok |-> TRUE, error |-> "",
          ranges |-> EqualPartsFrom(0, parts, totalPages \div parts, 0, 1)]

calculateEqualParts(totalPages, parts) ==
    IF parts < 1 THEN RangesFailure("Must have at least 1 part")
    ELSE IF parts > totalPages THEN RangesFailure("Cannot split")
    ELSE [ok |-> TRUE, error |-> "",
          ranges |-> EqualPartsFrom(0, parts, totalPages \div parts,
                                    totalPages % parts, 1)]

----------------------------------------------------------------------------
(* MergePage: handleProcess (components/MergePage.tsx).                    *)

\* getPageCount(file), run by handleFiles when the file is chosen.
getPageCount(file) ==
    IF detectFileType(file) = "xtc"
    THEN parseXtcFile(file.data).header.pageCount
    ELSE Len(file.images)

\* actualOutputFormat
actualOutputFormat(detectedType, xtcOutputFormat) ==
    CASE detectedType = "xtc" -> xtcOutputFormat
      [] detectedType = "pdf" -> "pdf"
      [] OTHER -> "cbz"

\* The characters typed into the ranges field.
InputChars == {"0", "1", "3", "-", ",", " "}

RangeInputs == UNION {[1..n -> InputChars] : n \in 1..MaxInput}

\* The files handleFiles accepts in split mode and can count the pages of.
UiSplitPool ==
    { XtcFile(<<"a", "xtc">>, <<3, 4, 2>>),
      ArchiveFile(<<"c", "cbz">>, <<1, 3, 2>>),
      ArchiveFile(<<"e", "pdf">>, <<2, 1>>) }

\* The files offered to merge mode; handleFiles keeps a list only while
\* validateSameType accepts it.
UiMergePool ==
    { XtcFile(<<"a", "xtc">>, <<3>>),
      XtcFile(<<"b", "XTC">>, <<4, 2>>),
      ArchiveFile(<<"c", "cbz">>, <<1, 3>>),
      ArchiveFile(<<"e", "pdf">>, <<2>>),
      ArchiveFile(<<"f", "cbr">>, <<1>>) }

\* canProcess: the Merge / Split button is enabled.
canProcess ==
    IF uiMode = "merge" THEN Len(mFiles) >= 2
    ELSE uiSplitMethod = "parts" \/ Len(Trim(uiRangesInput)) > 0

UiIdleRest ==
    /\ uiResults = <<>>
    /\ uiPc = "ready"
    /\ mFormat = "xtc" /\ mPc = "off" /\ mIdx = 0 /\ mAll = <<>>
    /\ mProgress = <<>> /\ mReads = <<>> /\ mResult = NoResult /\ mError = ""
    /\ sRanges = <<>> /\ sFormat = "xtc" /\ sPc = "off" /\ sIdx = 0
    /\ sParsed = NoParse /\ sResults = <<>> /\ sReturned = <<>>
    /\ sProgress = <<>> /\ sError = ""

\* Split mode with typed ranges.
StartUiRanges ==
    /\ uiMode = "split"
    /\ uiSplitMethod = "ranges"
    /\ uiRangesInput \in RangeInputs
    /\ uiPartsCount = 2
    /\ sFile \in UiSplitPool
    /\ uiTotalPages = getPageCount(sFile)
    /\ uiXtcFormat = "xtc"
    /\ mFiles = <<>>
    /\ UiIdleRest

\* Split mode with a number of equal parts.
StartUiParts ==
    /\ uiMode = "split"
    /\ uiSplitMethod = "parts"
    /\ uiRangesInput = <<>>
    /\ uiPartsCount \in 2..MaxParts
    /\ sFile \in UiSplitPool
    /\ uiTotalPages = getPageCount(sFile)
    /\ uiXtcFormat \in {"xtc", "cbz"}
    /\ mFiles = <<>>
    /\ UiIdleRest

\* Merge mode.
StartUiMerge ==
    /\ uiMode = "merge"
    /\ uiSplitMethod = "ranges"
    /\ uiRangesInput = <<>>
    /\ uiPartsCount = 2
    /\ sFile = ArchiveFile(<<"none">>, <<>>)
    /\ uiTotalPages = 0
    /\ uiXtcFormat \in {"xtc", "cbz"}
    /\ mFiles \in {fs \in [1..2 -> UiMergePool] : validateSameType(fs).valid}
    /\ UiIdleRest

StartUi == (StartUiRanges \/ StartUiParts \/ StartUiMerge) /\ canProcess

IdleUi ==
    /\ uiMode = "split"
    /\ uiSplitMethod = "ranges"
    /\ uiRangesInput = <<>>
    /\ uiPartsCount = 2
    /\ uiTotalPages = 0
    /\ uiXtcFormat = "xtc"
    /\ uiResults = <<>>
    /\ uiPc = "off"

\* The entry the catch block of handleProcess shows.
ErrorEntry(msg) ==
    [name |-> "error", data |-> <<>>, archive |-> <<>>, size |-> 0,
     pageCount |-> 0, error |-> msg, selected |-> FALSE]

\* { ...result, selected: true }
SelectedEntry(r) ==
    [name |-> r.name, data |-> r.data, archive |-> r.archive, size |-> r.size,
     pageCount |-> r.pageCount, error |-> "", selected |-> TRUE]

\* handleProcess from the click to the call of mergeFiles or splitFile; a
\* throw of parsePageRanges or calculateEqualParts goes to the catch block.
HandleProcess ==
    /\ uiPc = "ready"
    /\ canProcess
    /\ IF uiMode = "merge"
       THEN /\ Len(mFiles) # 0
            /\ mFormat' = actualOutputFormat(validateSameType(mFiles).type,
                                             uiXtcFormat)
            /\ mPc' = "idle"
            /\ uiPc' = "processing"
            /\ uiResults' = <<>>
            /\ UNCHANGED <<mFiles, mIdx, mAll, mProgress, mReads, mResult,
                           mError, splitVars>>
       ELSE LET parsed == IF uiSplitMethod = "ranges"
                          THEN parsePageRanges(uiRangesInput, uiTotalPages)
                          ELSE calculateEqualParts(uiTotalPages, uiPartsCount)
            IN IF ~parsed.ok
               THEN /\ uiResults' = <<ErrorEntry(parsed.error)>>
                    /\ uiPc' = "settled"
                    /\ UNCHANGED <<mergeVars, splitVars, procVars>>
               ELSE /\ sRanges' = parsed.ranges
                    /\ sFormat' = actualOutputFormat(detectFileType(sFile),
                                                     uiXtcFormat)
                    /\ sPc' = "idle"
                    /\ uiPc' = "processing"
                    /\ uiResults' = <<>>
                    /\ UNCHANGED <<sFile, sIdx, sParsed, sResults, sReturned,
                                   sProgress, sError, mergeVars>>
    /\ UNCHANGED <<uiMode, uiSplitMethod, uiRangesInput, uiPartsCount,
                   uiTotalPages, uiXtcFormat>>
    /\ UNCHANGED <<encVars, pmVars, batchVars, procVars>>

\* handleProcess after the awaited call: setResults of the outcome, or the
\* catch block.
HandleProcessSettle ==
    /\ uiPc = "processing"
    /\ \/ /\ uiMode = "merge" /\ mPc = "done"
          /\ uiResults' = <<SelectedEntry(mResult)>>
       \/ /\ uiMode = "merge" /\ mPc = "failed"
          /\ uiResults' = <<ErrorEntry(mError)>>
       \/ /\ uiMode = "split" /\ sPc = "done"
          /\ uiResults' = [k \in 1..Len(sReturned) |-> SelectedEntry(sReturned[k])]
       \/ /\ uiMode = "split" /\ sPc = "failed"
          /\ uiResults' = <<ErrorEntry(sError)>>
    /\ uiPc' = "settled"
    /\ UNCHANGED <<uiMode, uiSplitMethod, uiRangesInput, uiPartsCount,
                   uiTotalPages, uiXtcFormat>>
    /\ UNCHANGED <<encVars, mergeVars, splitVars, pmVars, batchVars, procVars>>

NextUi ==
    \/ HandleProcess
    \/ HandleProcessSettle
    \/ MergeFiles
    \/ MergeXtcRawStep
    \/ MergeXtcRawBuild
    \/ MergeXtcDecodeStep
    \/ MergeXtcDecodeBuild
    \/ MergeCbzStep
    \/ MergeCbzBuild
    \/ MergePdfCopyStep
    \/ MergePdfCopyBuild
    \/ SplitFile
    \/ SplitXtcStep
    \/ SplitCbzStep
    \/ SplitPdfCopy
    \/ SplitReturn

\* A part whose numbers are out of order or outside [1, totalPages].
InvalidPart(part, totalPages) ==
    /\ PartStart(part) # NaN
    /\ PartEnd(part) # NaN
    /\ \/ PartStart(part) < 1
       \/ PartEnd(part) > totalPages
       \/ PartStart(part) > PartEnd(part)

HasInvalidPart(input, totalPages) ==
    \E i \in 1..Len(RangeParts(input)) :
        InvalidPart(RangeParts(input)[i], totalPages)

\* C4: when any comma-separated part has start < 1, end > totalPages or
\* start > end, parsePageRanges raises an error and returns no range, even
\* when earlier parts are valid, and the split produces no output artifact;
\* every range it does return satisfies 1 <= start <= end <= totalPages.
InvalidRangesProduceNothing ==
    (uiMode = "split" /\ uiSplitMethod = "ranges" /\ uiPc # "ready")
        => /\ HasInvalidPart(uiRangesInput, uiTotalPages)
                => /\ uiPc = "settled"
                   /\ Len(uiResults) = 1
                   /\ uiResults[1].error # ""
                   /\ uiResults[1].pageCount = 0
                   /\ uiResults[1].data = <<>>
                   /\ sPc = "off"
                   /\ sRanges = <<>>
                   /\ sResults = <<>>
                   /\ sReturned = <<>>
           /\ \A k \in 1..Len(sRanges) : ValidRange(sRanges[k], uiTotalPages)

\* "1,3-1": a valid page followed by a range with start > end was rejected.
InvalidRangesWitness ==
    /\ uiPc = "settled"
    /\ uiRangesInput = <<"1", ",", "3", "-", "1">>
    /\ uiTotalPages = 3
    /\ uiResults # <<>>
    /\ uiResults[1].error # ""

----------------------------------------------------------------------------
(* Page mapping: PageMappingContext, adjustTocForMapping                   *)
(* (lib/page-mapping.ts), and the table of contents it is applied to.      *)

\* extractTocFromPages, first loop: one entry per Page element that has a
\* Bookmark, from element index (1-based) on.
RECURSIVE BookmarkedPages(_, _)
BookmarkedPages(pages, index) ==
    IF index > Len(pages) THEN <<>>
    ELSE (IF pages[index] # ""
          THEN <<[title |-> pages[index], startPage |-> index,
                  endPage |-> index]>>
          ELSE <<>>)
            \o BookmarkedPages(pages, index + 1)

\* extractTocFromPages: end pages from the next chapter's start.
extractTocFromPages(pages) ==
    LET toc == BookmarkedPages(pages, 1)
    IN [i \in 1..Len(toc) |->
            [title |-> toc[i].title,
             startPage |-> toc[i].startPage,
             endPage |-> IF i < Len(toc) THEN toc[i + 1].startPage - 1
                         ELSE Len(pages)]]

\* The PageMappingContext as one value.
Ctx == [mappings |-> pmMappings, currentXtcPage |-> pmCurrentXtcPage]

\* An addOriginalPage that counts one output page per call.
addOriginalPageByOne(ctx, originalPage, xtcPageCount) ==
    [mappings |-> Append(ctx.mappings,
                         [originalPage |-> originalPage,
                          xtcStartPage |-> ctx.currentXtcPage,
                          xtcPageCount |-> xtcPageCount]),
     currentXtcPage |-> ctx.currentXtcPage + 1]

addOriginalPage(ctx, originalPage, xtcPageCount) ==
    [mappings |-> Append(ctx.mappings,
                         [originalPage |-> originalPage,
                          xtcStartPage |-> ctx.currentXtcPage,
                          xtcPageCount |-> xtcPageCount]),
     currentXtcPage |-> ctx.currentXtcPage + xtcPageCount]

\* A getXtcPage that ignores the mappings.
getXtcPageUnmapped(ctx, originalPage) == originalPage

\* mappings.find(m => m.originalPage === originalPage): the first match.
getXtcPage(ctx, originalPage) ==
    IF \E k \in 1..Len(ctx.mappings) :
           ctx.mappings[k].originalPage = originalPage
    THEN LET k == CHOOSE k \in 1..Len(ctx.mappings) :
                      /\ ctx.mappings[k].originalPage = originalPage
                      /\ \A j \in 1..(k - 1) :
                             ctx.mappings[j].originalPage # originalPage
         IN ctx.mappings[k].xtcStartPage
    ELSE originalPage

getTotalXtcPages(ctx) == ctx.currentXtcPage - 1

\* An adjustTocForMapping that ends a chapter on the page the next starts.
adjustTocEndAtNextStart(toc, mappingCtx) ==
    [index \in 1..Len(toc) |->
        [title |-> toc[index].title,
         startPage |-> getXtcPage(mappingCtx, toc[index].startPage),
         endPage |-> IF index < Len(toc)
                     THEN getXtcPage(mappingCtx, toc[index + 1].startPage)
                     ELSE getTotalXtcPages(mappingCtx)]]

adjustTocForMapping(toc, mappingCtx) ==
    IF Len(toc) = 0 THEN <<>>
    ELSE LET totalXtcPages == getTotalXtcPages(mappingCtx)
         IN [index \in 1..Len(toc) |->
                [title |-> toc[index].title,
                 startPage |-> getXtcPage(mappingCtx, toc[index].startPage),
                 endPage |-> IF index < Len(toc)
                             THEN getXtcPage(mappingCtx,
                                             toc[index + 1].startPage) - 1
                             ELSE totalXtcPages]]

\* The Bookmark attributes of n Page elements: those in marked carry a
\* chapter title.
PagesWithBookmarks(n, marked) ==
    [i \in 1..n |-> IF i \in marked THEN "ch" \o ToString(i) ELSE ""]

\* A context in use on its own, with the contents of a ComicInfo of
\* MaxOrig pages.
StartPm ==
    /\ pmPages \in {PagesWithBookmarks(MaxOrig, marked) :
                        marked \in {{1}, {2}, {1, 3}}}
    /\ pmToc = extractTocFromPages(pmPages)
    /\ pmMappings = <<>>
    /\ pmCurrentXtcPage = 1
    /\ pmPc = "adding"

IdlePm ==
    /\ pmPages = <<>>
    /\ pmToc = <<>>
    /\ pmMappings = <<>>
    /\ pmCurrentXtcPage = 1
    /\ pmPc = "off"

\* mappingCtx.addOriginalPage(originalPage, xtcPageCount)
AddOriginalPage ==
    /\ pmPc = "adding"
    /\ Len(pmMappings) < MaxCalls
    /\ \E originalPage \in 1..MaxOrig, xtcPageCount \in 0..MaxCount :
           LET ctx == addOriginalPage(Ctx, originalPage, xtcPageCount)
           IN /\ pmMappings' = ctx.mappings
              /\ pmCurrentXtcPage' = ctx.currentXtcPage
    /\ UNCHANGED <<pmPages, pmToc, pmPc>>
    /\ UNCHANGED <<encVars, mergeVars, splitVars, uiVars, batchVars, procVars>>

\* metadata.toc = adjustTocForMapping(metadata.toc, mappingCtx)
AdjustToc ==
    /\ pmPc = "adding"
    /\ pmToc' = adjustTocForMapping(pmToc, Ctx)
    /\ pmPc' = "adjusted"
    /\ UNCHANGED <<pmPages, pmMappings, pmCurrentXtcPage>>
    /\ UNCHANGED <<encVars, mergeVars, splitVars, uiVars, batchVars, procVars>>

NextPm == AddOriginalPage \/ AdjustToc

\* The sum of xtcPageCount over the first n entries.
RECURSIVE SumCounts(_, _)
SumCounts(mappings, n) ==
    IF n = 0 THEN 0
    ELSE SumCounts(mappings, n - 1) + mappings[n].xtcPageCount

\* C6, as claimed: for every non-empty chapter list and every mapping the
\* adjusted chapter ranges are gapless over [1, totalOutputPages]: the
\* first chapter starts at 1, each later chapter starts one page after the
\* previous one ends, and the last chapter ends at totalOutputPages.
TocCoversAllOutputPages ==
    (pmPc = "adjusted" /\ pmToc # <<>>)
        => /\ pmToc[1].startPage = 1
           /\ \A i \in 1..(Len(pmToc) - 1) :
                  pmToc[i + 1].startPage = pmToc[i].endPage + 1
           /\ pmToc[Len(pmToc)].endPage = getTotalXtcPages(Ctx)

\* C8: the i-th mapping entry starts at 1 + the sum of the counts of all
\* earlier entries, and getTotalXtcPages() is the sum of all counts.
MappingStartsArePrefixSums ==
    /\ \A i \in 1..Len(pmMappings) :
           pmMappings[i].xtcStartPage = 1 + SumCounts(pmMappings, i - 1)
    /\ getTotalXtcPages(Ctx) = SumCounts(pmMappings, Len(pmMappings))

\* Three calls with unequal counts, one of them 0.
MappingStartsWitness ==
    /\ Len(pmMappings) = 3
    /\ pmMappings[1].xtcPageCount = 2
    /\ pmMappings[2].xtcPageCount = 0
    /\ pmMappings[3].xtcPageCount = 1

\* The (originalPage, xtcPageCount) pairs of the calls made so far.
CallsMade ==
    [i \in 1..Len(pmMappings) |->
        <<pmMappings[i].originalPage, pmMappings[i].xtcPageCount>>]

\* C9: getXtcPage(p) is the start page recorded for p (by the first call
\* for p: 1 + the counts of the calls before it) and p itself when no call
\* was made for p; after (1,1), (2,2), (3,1) it is 2 for page 2 and 4 for
\* page 3, and the total is 4.
GetXtcPageRecordedOrSame ==
    /\ \A p \in 0..(MaxOrig + 1) :
           IF \E k \in 1..Len(pmMappings) : pmMappings[k].originalPage = p
           THEN \E k \in 1..Len(pmMappings) :
                    /\ pmMappings[k].originalPage = p
                    /\ \A j \in 1..(k - 1) : pmMappings[j].originalPage # p
                    /\ getXtcPage(Ctx, p) = 1 + SumCounts(pmMappings, k - 1)
           ELSE getXtcPage(Ctx, p) = p
    /\ CallsMade = << <<1, 1>>, <<2, 2>>, <<3, 1>> >>
           => /\ getXtcPage(Ctx, 2) = 2
              /\ getXtcPage(Ctx, 3) = 4
              /\ getTotalXtcPages(Ctx) = 4

\* The three calls of the example were made.
GetXtcPageWitness == CallsMade = << <<1, 1>>, <<2, 2>>, <<3, 1>> >>

----------------------------------------------------------------------------
(* convertCbzToXtc: the page loop and the adjustment of the contents.      *)

\* The archives converted: n images with a ComicInfo of n Page elements,
\* bookmarked at the pages of one of these sets.
BookmarkSets == {{1, 5, 10}, {2, 7}}

StartConvert ==
    /\ pmPages \in {PagesWithBookmarks(n, marked) :
                        n \in 1..MaxBookPages, marked \in BookmarkSets}
    /\ pmToc = extractTocFromPages(pmPages)
    /\ pmMappings = <<>>
    /\ pmCurrentXtcPage = 1
    /\ pmPc = "converting"

\* One turn of the loop over imageFiles: processImage gives one page, or
\* two when the image is split, and the mapping records it.
ConvertPage ==
    /\ pmPc = "converting"
    /\ Len(pmMappings) < Len(pmPages)
    /\ \E pagesLength \in 1..2 :
           LET i == Len(pmMappings)
               ctx == addOriginalPage(Ctx, i + 1, pagesLength)
           IN /\ pmMappings' = ctx.mappings
              /\ pmCurrentXtcPage' = ctx.currentXtcPage
    /\ UNCHANGED <<pmPages, pmToc, pmPc>>
    /\ UNCHANGED <<encVars, mergeVars, splitVars, uiVars, batchVars, procVars>>

\* After the loop: if (metadata.toc.length > 0) metadata.toc = adjust...
ConvertAdjustToc ==
    /\ pmPc = "converting"
    /\ Len(pmMappings) = Len(pmPages)
    /\ pmToc' = IF Len(pmToc) > 0 THEN adjustTocForMapping(pmToc, Ctx)
                ELSE pmToc
    /\ pmPc' = "adjusted"
    /\ UNCHANGED <<pmPages, pmMappings, pmCurrentXtcPage>>
    /\ UNCHANGED <<encVars, mergeVars, splitVars, uiVars, batchVars, procVars>>

NextConvert == ConvertPage \/ ConvertAdjustToc

\* 12 pages, page 5 became two output pages and every other page one, and
\* the chapters start at pages 1, 5 and 10.
TocExample ==
    /\ pmPc = "adjusted"
    /\ Len(pmPages) = 12
    /\ \A i \in 1..12 : (pmPages[i] # "") <=> (i \in {1, 5, 10})
    /\ \A i \in 1..12 :
           pmMappings[i].xtcPageCount = (IF i = 5 THEN 2 ELSE 1)

\* C7: in the example the adjusted ranges are contiguous, gapless and
\* non-overlapping and cover exactly [1, 13]: every page of 1..13 lies in
\* exactly one range and no range reaches outside.
TocExampleCovers ==
    TocExample
        => /\ Len(pmToc) = 3
           /\ \A p \in 1..13 :
                  Cardinality({i \in 1..Len(pmToc) :
                      pmToc[i].startPage <= p /\ p <= pmToc[i].endPage}) = 1
           /\ \A i \in 1..Len(pmToc) :
                  /\ 1 <= pmToc[i].startPage
                  /\ pmToc[i].startPage <= pmToc[i].endPage
                  /\ pmToc[i].endPage <= 13
           /\ \A i \in 1..(Len(pmToc) - 1) :
                  pmToc[i + 1].startPage = pmToc[i].endPage + 1

TocExampleWitness ==
    /\ TocExample
    /\ pmToc[2].startPage = 5
    /\ pmToc[2].endPage = 10

----------------------------------------------------------------------------
(* Batch conversion: handleConvert (components/ConverterPage.tsx) with     *)
(* useStoredResults, and startConversion (main.ts).                        *)

\* A selected file: its name, the patterns of its image entries or pages
\* (0 for an image that fails to load), and whether the archive or
\* document is unreadable.
BatchFile(name, images, corrupt) ==
    [name |-> name, images |-> images, corrupt |-> corrupt]

\* file.name.replace(/\.<ext>$/i, '.xtc') for the extensions in exts.
ReplaceExt(name, exts) ==
    IF Len(name) >= 2 /\ ToLowerCase(name[Len(name)]) \in exts
    THEN JoinDots(SubSeq(name, 1, Len(name) - 1)) \o ".xtc"
    ELSE JoinDots(name)

\* file.name.replace('.cbz', '.xtc'): the first '.cbz', case-sensitive.
ReplaceFirstCbz(name) ==
    IF \E i \in 2..Len(name) : name[i] = "cbz"
    THEN LET i == CHOOSE i \in 2..Len(name) :
                      /\ name[i] = "cbz"
                      /\ \A j \in 2..(i - 1) : name[j] # "cbz"
         IN JoinDots([j \in 1..Len(name) |->
                          IF j = i THEN "xtc" ELSE name[j]])
    ELSE JoinDots(name)

NoConversion ==
    [name |-> "", data |-> <<>>, size |-> 0, pageCount |-> 0, error |-> ""]

ConvertFailure(msg) == [ok |-> FALSE, error |-> msg, result |-> NoConversion]

\* processImage over the images in order: a page per image that loads,
\* nothing for one that does not.
ProcessedPages(images) ==
    LET loaded == SelectSeq(images, LAMBDA p : p # 0)
    IN [i \in 1..Len(loaded) |-> resizeCanvasForXtc(loaded[i])]

\* The ConversionResult of a conversion that made processedPages; error
\* is undefined, here "".
ConversionResult(name, processedPages, xtcData) ==
    [ok |-> TRUE, error |-> "",
     result |-> [name |-> name,
                 data |-> xtcData,
                 size |-> Len(xtcData),
                 pageCount |-> Len(processedPages),
                 error |-> ""]]

ConversionOf(file, ext) ==
    ConversionResult(ReplaceExt(file.name, {ext}),
                     ProcessedPages(file.images),
                     buildXtc(ProcessedPages(file.images)))

convertCbzToXtc(file) ==
    IF file.corrupt THEN ConvertFailure("Corrupted zip")
    ELSE IF Len(file.images) = 0 THEN ConvertFailure("No images found in CBZ")
    ELSE ConversionOf(file, "cbz")

convertCbrToXtc(file) ==
    IF file.corrupt THEN ConvertFailure("Failed to open archive")
    ELSE IF Len(file.images) = 0 THEN ConvertFailure("No images found in CBR")
    ELSE ConversionOf(file, "cbr")

convertPdfToXtc(file) ==
    IF file.corrupt THEN ConvertFailure("Invalid PDF structure")
    ELSE ConversionOf(file, "pdf")

convertToXtc(file, fileType) ==
    CASE fileType = "pdf" -> convertPdfToXtc(file)
      [] fileType = "cbr" -> convertCbrToXtc(file)
      [] OTHER -> convertCbzToXtc(file)

\* The StoredResult an entry of the results list is: the record without
\* its data, or the in-memory stand-in for it.
StoredRef(sessionId, result) ==
    [sessionId |-> sessionId, name |-> result.name, size |-> result.size,
     pageCount |-> result.pageCount, error |-> result.error,
     status |-> IF result.error # "" THEN "error" ELSE "complete"]

\* { name, error }: the result a catch block stores; the fields it lacks
\* are empty.
ErrorResult(name, msg) ==
    [name |-> name, data |-> <<>>, size |-> 0, pageCount |-> 0, error |-> msg]

\* A loop that leaves at the first failure.
LoopNextStopOnFailure(i, n, failed) == IF failed THEN n ELSE i + 1

\* i++ of the loop over selectedFiles, after the try or the catch block.
LoopNext(i, n, failed) == i + 1

\* The files a ConverterPage for comics accepts, and one for PDF.
ComicPool ==
    { BatchFile(<<"a", "cbz">>, <<1, 3>>, FALSE),
      BatchFile(<<"b", "cbz">>, <<>>, FALSE),
      BatchFile(<<"c", "cbr">>, <<2>>, FALSE),
      BatchFile(<<"d", "cbr">>, <<>>, FALSE),
      BatchFile(<<"E", "CBZ">>, <<0>>, TRUE) }

PdfPool ==
    { BatchFile(<<"f", "pdf">>, <<2, 1>>, FALSE),
      BatchFile(<<"g", "pdf">>, <<>>, TRUE) }

\* The files main.ts keeps: names that end in .cbz, in any case.
MainPool ==
    { BatchFile(<<"a", "cbz">>, <<1, 3>>, FALSE),
      BatchFile(<<"b", "cbz">>, <<>>, FALSE),
      BatchFile(<<"h", "cbz">>, <<0, 4>>, FALSE),
      BatchFile(<<"z", "cbz">>, <<0>>, FALSE),
      BatchFile(<<"E", "CBZ">>, <<0>>, TRUE) }

BatchesOf(pool) == UNION {[1..n -> pool] : n \in 0..MaxBatch}

\* What is left of an earlier batch.
EarlierResults ==
    {<<>>, <<StoredRef("in-memory", ErrorResult("old.xtc", "Unknown error"))>>}

StartBatch ==
    /\ bKind \in {"ConverterPage", "main"}
    /\ bFileType \in {"cbz", "pdf"}
    /\ bKind = "main" => bFileType = "cbz"
    /\ bFiles \in BatchesOf(IF bKind = "main" THEN MainPool
                            ELSE IF bFileType = "pdf" THEN PdfPool
                            ELSE ComicPool)
    /\ bStorage \in BOOLEAN
    /\ bKind = "main" => ~bStorage
    /\ bDb = <<>>
    /\ bRecorded = <<>>
    /\ bI = 0
    /\ bResults \in EarlierResults
    /\ bPc = "ready"

IdleBatch ==
    /\ bKind = "main"
    /\ bFileType = "cbz"
    /\ bFiles = <<>>
    /\ bStorage = FALSE
    /\ bDb = <<>>
    /\ bRecorded = <<>>
    /\ bI = 0
    /\ bResults = <<>>
    /\ bPc = "off"

\* handleConvert up to its loop: nothing for an empty selection, else
\* clearSession().
HandleConvertStart ==
    /\ bKind = "ConverterPage"
    /\ bPc = "ready"
    /\ IF Len(bFiles) = 0
       THEN /\ bPc' = "returned"
            /\ UNCHANGED <<bDb, bResults>>
       ELSE /\ bPc' = "converting"
            /\ \/ bDb' = <<>>
               \/ bStorage /\ bDb' = bDb
            /\ bResults' = <<>>
    /\ UNCHANGED <<bKind, bFileType, bFiles, bStorage, bRecorded, bI>>
    /\ UNCHANGED <<encVars, mergeVars, splitVars, uiVars, pmVars, procVars>>

\* addResult(result): the entry appended to results and the conversions
\* in the database after it; stored tells whether storeConversion resolved.
\* addResult falls back to the in-memory entry when storage is off or the
\* store rejects.
AddResult(result, stored) ==
    /\ bDb' = IF bStorage /\ stored THEN Append(bDb, result) ELSE bDb
    /\ bResults' = Append(bResults,
                          StoredRef(IF bStorage THEN "session"
                                    ELSE "in-memory", result))

\* The try and catch blocks of handleConvert for a file whose conversion
\* ended as outcome.
HandleConverted(file, outcome, stored) ==
    /\ IF outcome.ok
       THEN AddResult(outcome.result, stored)
       ELSE AddResult(ErrorResult(ReplaceExt(file.name,
                                             {"cbz", "cbr", "pdf"}),
                                  outcome.error), stored)
    /\ bRecorded' = IF outcome.ok THEN Append(bRecorded, bFileType)
                    ELSE bRecorded
    /\ bI' = LoopNext(bI, Len(bFiles), ~outcome.ok)

\* One turn of the loop of handleConvert: the conversion, then addResult of
\* its result, or of the error entry in the catch block.
HandleConvertFile ==
    /\ bKind = "ConverterPage"
    /\ bPc = "converting"
    /\ bI < Len(bFiles)
    /\ \E stored \in BOOLEAN :
           HandleConverted(
               bFiles[bI + 1],
               convertToXtc(bFiles[bI + 1],
                            IF ToLowerCase(bFiles[bI + 1].name[
                                   Len(bFiles[bI + 1].name)]) = "cbr"
                            THEN "cbr" ELSE bFileType),
               stored)
    /\ UNCHANGED <<bKind, bFileType, bFiles, bStorage, bPc>>
    /\ UNCHANGED <<encVars, mergeVars, splitVars, uiVars, pmVars, procVars>>

\* handleConvert after its loop.
HandleConvertEnd ==
    /\ bKind = "ConverterPage"
    /\ bPc = "converting"
    /\ bI >= Len(bFiles)
    /\ bPc' = "done"
    /\ UNCHANGED <<bKind, bFileType, bFiles, bStorage, bDb, bRecorded, bI,
                   bResults>>
    /\ UNCHANGED <<encVars, mergeVars, splitVars, uiVars, pmVars, procVars>>

\* startConversion up to its loop: results = [].
StartConversion ==
    /\ bKind = "main"
    /\ bPc = "ready"
    /\ IF Len(bFiles) = 0
       THEN /\ bPc' = "returned"
            /\ UNCHANGED bResults
       ELSE /\ bPc' = "converting"
            /\ bResults' = <<>>
    /\ UNCHANGED <<bKind, bFileType, bFiles, bStorage, bDb, bRecorded, bI>>
    /\ UNCHANGED <<encVars, mergeVars, splitVars, uiVars, pmVars, procVars>>

\* The try and catch blocks of startConversion for a file whose
\* conversion ended as outcome.
StartConverted(file, outcome) ==
    /\ bResults' = Append(bResults,
                          IF outcome.ok THEN outcome.result
                          ELSE ErrorResult(ReplaceFirstCbz(file.name),
                                           outcome.error))
    /\ bI' = LoopNext(bI, Len(bFiles), ~outcome.ok)

\* One turn of the loop of startConversion.
StartConversionFile ==
    /\ bKind = "main"
    /\ bPc = "converting"
    /\ bI < Len(bFiles)
    /\ StartConverted(bFiles[bI + 1], convertCbzToXtc(bFiles[bI + 1]))
    /\ UNCHANGED <<bKind, bFileType, bFiles, bStorage, bDb, bRecorded, bPc>>
    /\ UNCHANGED <<encVars, mergeVars, splitVars, uiVars, pmVars, procVars>>

\* startConversion after its loop: showResults(results, ...).
StartConversionEnd ==
    /\ bKind = "main"
    /\ bPc = "converting"
    /\ bI >= Len(bFiles)
    /\ bPc' = "done"
    /\ UNCHANGED <<bKind, bFileType, bFiles, bStorage, bDb, bRecorded, bI,
                   bResults>>
    /\ UNCHANGED <<encVars, mergeVars, splitVars, uiVars, pmVars, procVars>>

NextBatch ==
    \/ HandleConvertStart
    \/ HandleConvertFile
    \/ HandleConvertEnd
    \/ StartConversion
    \/ StartConversionFile
    \/ StartConversionEnd

\* The file cannot be converted: it is unreadable or holds no image.
ConversionFails(file) ==
    \/ file.corrupt
    \/ Len(file.images) = 0 /\ ToLowerCase(file.name[Len(file.name)]) # "pdf"

\* The images of the file that load.
LoadedImages(file) == Cardinality({i \in 1..Len(file.images) : file.images[i] # 0})

\* C10: when a batch of n files ends, the results list holds exactly n
\* entries in submission order; the entry of a file that failed carries an
\* error description, every other entry is that file's successful result,
\* so a failure does not keep later files from being converted.
BatchKeepsEveryFile ==
    bPc = "done"
        => /\ Len(bResults) = Len(bFiles)
           /\ \A i \in 1..Len(bFiles) :
                  IF ConversionFails(bFiles[i])
                  THEN /\ i <= Len(bResults)
                       /\ bResults[i].error # ""
                       /\ bResults[i].name
                              = JoinDots(<<bFiles[i].name[1], "xtc">>)
                            \/ bResults[i].name = JoinDots(bFiles[i].name)
                  ELSE /\ i <= Len(bResults)
                       /\ bResults[i].error = ""
                       /\ bResults[i].name
                              = JoinDots(<<bFiles[i].name[1], "xtc">>)
                       /\ bResults[i].pageCount = LoadedImages(bFiles[i])

\* Three files, the second failed and the third was converted after it.
BatchWitness ==
    /\ bPc = "done"
    /\ Len(bFiles) = 3
    /\ ~ConversionFails(bFiles[1])
    /\ ConversionFails(bFiles[2])
    /\ ~ConversionFails(bFiles[3])
    /\ Len(bResults) = 3
    /\ bResults[3].error = ""

----------------------------------------------------------------------------
(* Progress reporting.                                                     *)

\* The value handleProcess shows for a MergeProgress,
\* (fileIndex + pageProgress) / totalFiles, as a fraction of integers.
MergeOverall(p) ==
    [num |-> p.fileIndex * p.den + p.num, den |-> p.den * p.totalFiles]

\* The overall progress of a SplitProgress,
\* (rangeIndex + pageProgress) / totalRanges, as a fraction of integers.
SplitOverall(p) ==
    [num |-> p.rangeIndex * p.den + p.num, den |-> p.den * p.totalRanges]

\* a <= b for fractions with positive denominators.
FracLeq(a, b) == a.num * b.den <= b.num * a.den

\* C11: during one merge or split call the overall progress values seen by
\* the callback never decrease from one call to the next.
ProgressNeverDecreases ==
    /\ \A k \in 1..(Len(mProgress) - 1) :
          FracLeq(MergeOverall(mProgress[k]), MergeOverall(mProgress[k + 1]))
    /\ \A k \in 1..(Len(sProgress) - 1) :
          FracLeq(SplitOverall(sProgress[k]), SplitOverall(sProgress[k + 1]))

----------------------------------------------------------------------------
(* Malformed containers.                                                   *)

\* A container whose header and index do not fit its buffer: bad magic, a
\* buffer shorter than the 48-byte header, index entries beyond the buffer,
\* or an index entry whose offset + size lies beyond the end of the buffer.
EntryBeyondBuffer(buf, entry) == entry.offset + entry.size > Len(buf)

IndexBeyondBuffer(buf, header) ==
    \/ header.indexOffset + header.pageCount * IndexEntrySize > Len(buf)
    \/ \E i \in 0..(header.pageCount - 1) :
          EntryBeyondBuffer(buf, parseIndexEntry(
                                     buf, header.indexOffset + i * IndexEntrySize))

InconsistentContainer(buf) ==
    \/ Len(buf) < XtcHeaderSize
    \/ SubSeq(buf, 1, 3) # <<88, 84, 67>>
    \/ IndexBeyondBuffer(buf, parseXtcHeader(buf))

\* The XTC files the merge has read so far.
ContainersRead ==
    {mFiles[mReads[k] + 1].data : k \in 1..Len(mReads)}

\* C12: a merge of XTC files that read an inconsistent container has failed
\* with an error and returns no result.
InconsistentContainerFails ==
    (/\ mPc \in {"xtcRaw", "xtcDecode", "failed", "done"}
     /\ Len(mFiles) > 0
     /\ validateSameType(mFiles).valid
     /\ validateSameType(mFiles).type = "xtc"
     /\ \E buf \in ContainersRead : InconsistentContainer(buf))
    => (mPc = "failed" /\ mError # "" /\ mResult = NoResult)

\* The pages of the parsed container that range k of the split selects.
RangeBlobs(k) == SliceRange(sParsed.pageData, sRanges[k])

HasXtgMagic(blob) == SubSeq(blob, 1, 3) = <<88, 84, 71>>

\* C13: a split of an XTC file to CBZ decodes every page of a range, and the
\* decoder rejects a blob whose magic is not XTG: no part is ever built from
\* a range holding such a blob.
SplitDecodeRejectsForeignBlob ==
    (sParsed.ok /\ sFormat # "xtc")
    => \A k \in 1..Len(sResults) :
          \A i \in 1..Len(RangeBlobs(k)) : HasXtgMagic(RangeBlobs(k)[i])

----------------------------------------------------------------------------
(* Page ranges outside the document.                                       *)

\* The page count of the file being split, once splitFile has opened it.
SplitTotalPages ==
    IF sParsed.ok THEN Len(sParsed.pageData) ELSE Len(sFile.images)

OutsideDocument(range, totalPages) ==
    \/ range.start < 1 \/ range.start > totalPages
    \/ range.end < 1 \/ range.end > totalPages

\* C14: a split called with a page range outside [1, totalPages] returns no
\* artifact, and no returned artifact has fewer pages than its range asks.
SplitOutOfRangeRaises ==
    (/\ sPc \in {"xtc", "cbz", "pdfCopy", "pdfRender", "done", "failed"}
     /\ \E k \in 1..Len(sRanges) :
           OutsideDocument(sRanges[k], SplitTotalPages))
    => /\ sPc # "done"
       /\ sReturned = <<>>

----------------------------------------------------------------------------
(* Conversions without pages.                                              *)

\* C15: a conversion that extracted no page ends with an error: no entry of
\* the results list is a successful result with pageCount 0.
NoEmptyContainer ==
    \A k \in 1..Len(bResults) :
        bResults[k].error = "" => bResults[k].pageCount > 0

----------------------------------------------------------------------------
(* Raster functions: applyContrast (lib/processing/image.ts), applyDithering *)
(* (lib/processing/dithering.ts) and imageDataToXtg, each applied to a       *)
(* grayscale buffer (R = G = B, one gray level per pixel).                   *)

MaxRasterW == 9
MaxRasterH == 3
MaxContrast == 1
MaxPasses == 2

\* Float32Array element: a pixel under diffusion, kept as a fixed-point
\* number with 15 fractional bits (what a 32-bit float holds below 512).
FixedOne == 32768

\* Uint8ClampedArray store of num / den (den > 0): clamp to 0..255 and round
\* to the nearest integer, ties to even.
ClampedStore(num, den) ==
    IF num <= 0 THEN 0
    ELSE IF num >= 255 * den THEN 255
    ELSE LET q == num \div den
             r == num % den
         IN IF 2 * r < den THEN q
            ELSE IF 2 * r > den THEN q + 1
            ELSE IF q % 2 = 0 THEN q ELSE q + 1

\* histogram[0] + ... + histogram[i]: the pixels of gray level at most i.
CountUpTo(data, i) == Cardinality({k \in 1..Len(data) : data[k] <= i})

\* histogram[255] + ... + histogram[i]: the pixels of gray level at least i.
CountDownTo(data, i) == Cardinality({k \in 1..Len(data) : data[k] >= i})

\* The gray levels at which a cumulative count can first reach a threshold:
\* level 0, level 255 and the levels present in the image.
LevelsOf(data) == {0, 255} \cup {data[k] : k \in 1..Len(data)}

\* The first i from 0 upward with count >= totalPixels * cutoff / 100,
\* 0 when there is none.
BlackPoint(data, cutoff) ==
    LET hit == {i \in LevelsOf(data) :
                   CountUpTo(data, i) * 100 >= Len(data) * cutoff}
    IN IF hit = {} THEN 0 ELSE CHOOSE i \in hit : \A j \in hit : i <= j

\* The first i from 255 downward with count >= totalPixels * cutoff / 100,
\* 255 when there is none.
WhitePoint(data, cutoff) ==
    LET hit == {i \in LevelsOf(data) :
                   CountDownTo(data, i) * 100 >= Len(data) * cutoff}
    IN IF hit = {} THEN 255 ELSE CHOOSE i \in hit : \A j \in hit : i >= j

Stretch(data, blackPoint, range) ==
    IF range > 0
    THEN [k \in 1..Len(data) |->
             ClampedStore((data[k] - blackPoint) * 255, range)]
    ELSE data

applyContrast(data, level) ==
    Stretch(data, BlackPoint(data, 3 * level),
            WhitePoint(data, 3 + 9 * level) - BlackPoint(data, 3 * level))

\* if (options.contrast > 0) applyContrast(...), without the condition.
ContrastStageUnguarded(data, contrast) == applyContrast(data, contrast)

\* if (options.contrast > 0) { applyContrast(ctx, width, height, contrast) }
ContrastStage(data, contrast) ==
    IF contrast > 0 THEN applyContrast(data, contrast) ELSE data

\* val = data[i] >= 128 ? 0 : 255
applyThresholdInverted(data) ==
    [k \in 1..Len(data) |-> IF data[k] >= 128 THEN 0 ELSE 255]

applyThreshold(data) ==
    [k \in 1..Len(data) |-> IF data[k] >= 128 THEN 255 ELSE 0]

\* The Bayer matrix of applyOrdered, row y % 4, column x % 4.
Bayer(x, y) ==
    <<<<0, 8, 2, 10>>, <<12, 4, 14, 6>>, <<3, 11, 1, 9>>, <<15, 7, 13, 5>>
    >>[(y % 4) + 1][(x % 4) + 1]

\* val = data[idx] > (bayer / 16) * 255 ? 255 : 0
applyOrdered(data, width, height) ==
    [k \in 1..Len(data) |->
        IF data[k] * 16 > Bayer((k - 1) % width, (k - 1) \div width) * 255
        THEN 255 ELSE 0]

\* Where the error of a pixel goes, in the order of the statements: offset
\* (dx, dy) receives error * num / den.
SierraLiteKernel ==
    << [dx |-> 1, dy |-> 0, num |-> 2, den |-> 4],
       [dx |-> -1, dy |-> 1, num |-> 1, den |-> 4],
       [dx |-> 0, dy |-> 1, num |-> 1, den |-> 4] >>

AtkinsonKernel ==
    << [dx |-> 1, dy |-> 0, num |-> 1, den |-> 8],
       [dx |-> 2, dy |-> 0, num |-> 1, den |-> 8],
       [dx |-> -1, dy |-> 1, num |-> 1, den |-> 8],
       [dx |-> 0, dy |-> 1, num |-> 1, den |-> 8],
       [dx |-> 1, dy |-> 1, num |-> 1, den |-> 8],
       [dx |-> 0, dy |-> 2, num |-> 1, den |-> 8] >>

\* A kernel that pushes error to the pixel on the left as well.
FloydSteinbergKernelBackward ==
    << [dx |-> 1, dy |-> 0, num |-> 7, den |-> 16],
       [dx |-> -1, dy |-> 0, num |-> 3, den |-> 16],
       [dx |-> 0, dy |-> 1, num |-> 5, den |-> 16],
       [dx |-> 1, dy |-> 1, num |-> 1, den |-> 16] >>

FloydSteinbergKernel ==
    << [dx |-> 1, dy |-> 0, num |-> 7, den |-> 16],
       [dx |-> -1, dy |-> 1, num |-> 3, den |-> 16],
       [dx |-> 0, dy |-> 1, num |-> 5, den |-> 16],
       [dx |-> 1, dy |-> 1, num |-> 1, den |-> 16] >>

\* pixels[target] += error * num / den
AddError(pixels, target, error, entry) ==
    [pixels EXCEPT ![target + 1] = @ + ((error * entry.num) \div entry.den)]

\* The "distribute error" statements of pixel (x, y) from entry i on: an
\* entry applies when x + dx lies within the row and y + dy within the image.
RECURSIVE Distribute(_, _, _, _, _, _, _, _)
Distribute(pixels, kernel, width, height, x, y, error, i) ==
    IF i > Len(kernel) THEN pixels
    ELSE IF /\ x + kernel[i].dx >= 0
            /\ x + kernel[i].dx < width
            /\ y + kernel[i].dy < height
    THEN Distribute(AddError(pixels,
                             (y + kernel[i].dy) * width + x + kernel[i].dx,
                             error, kernel[i]),
                    kernel, width, height, x, y, error, i + 1)
    ELSE Distribute(pixels, kernel, width, height, x, y, error, i + 1)

\* One iteration of the pixel loop at index idx: store the quantised pixel,
\* then distribute the error oldPixel - newPixel.
DiffuseStep(pixels, kernel, width, height, idx, newPixel) ==
    Distribute([pixels EXCEPT ![idx + 1] = newPixel], kernel, width, height,
               idx % width, idx \div width, pixels[idx + 1] - newPixel, 1)

\* The inner loop "for (let x = 0; x < width; x++)" of row y, from x on.
RECURSIVE DiffuseRow(_, _, _, _, _, _)
DiffuseRow(pixels, kernel, width, height, y, x) ==
    IF x >= width THEN pixels
    ELSE IF pixels[y * width + x + 1] >= 128 * FixedOne
    THEN DiffuseRow(DiffuseStep(pixels, kernel, width, height,
                                y * width + x, 255 * FixedOne),
                    kernel, width, height, y, x + 1)
    ELSE DiffuseRow(DiffuseStep(pixels, kernel, width, height,
                                y * width + x, 0),
                    kernel, width, height, y, x + 1)

\* The outer loop "for (let y = 0; y < height; y++)", from row y on.
RECURSIVE DiffuseRows(_, _, _, _, _)
DiffuseRows(pixels, kernel, width, height, y) ==
    IF y >= height THEN pixels
    ELSE DiffuseRows(DiffuseRow(pixels, kernel, width, height, y, 0),
                     kernel, width, height, y + 1)

\* applySierraLite, applyAtkinson and applyFloydSteinberg: copy the red
\* channel into the float array, run the loop, store the clamped values.
applyDiffusion(data, kernel, width, height) ==
    LET pixels == DiffuseRows([k \in 1..Len(data) |-> data[k] * FixedOne],
                              kernel, width, height, 0)
    IN [k \in 1..Len(data) |-> ClampedStore(pixels[k], FixedOne)]

DitherTags == {"none", "ordered", "floyd", "atkinson", "sierra-lite", "stucki"}

applyDithering(data, width, height, algorithm) ==
    CASE algorithm = "none" -> applyThreshold(data)
      [] algorithm = "sierra-lite" ->
           applyDiffusion(data, SierraLiteKernel, width, height)
      [] algorithm = "atkinson" ->
           applyDiffusion(data, AtkinsonKernel, width, height)
      [] algorithm = "floyd" ->
           applyDiffusion(data, FloydSteinbergKernel, width, height)
      [] algorithm = "ordered" -> applyOrdered(data, width, height)
      [] OTHER -> applyDiffusion(data, FloydSteinbergKernel, width, height)

\* Gray buffers: level base at the first pixel, rising by step per pixel.
GradientImage(base, step, w, h) ==
    [width |-> w, height |-> h,
     data |-> [i \in 1..(w * h) |-> (base + (i - 1) * step) % 256]]

RasterInputs ==
    {GradientImage(base, step, w, h) :
        base \in {0, 90, 127, 128, 255}, step \in {0, 1, 40, 128},
        w \in 1..MaxRasterW, h \in 1..MaxRasterH}

StartRaster ==
    /\ rsImage \in RasterInputs
    /\ rsOptions \in [contrast : 0..MaxContrast, dithering : DitherTags]
    /\ rsPasses = 0
    /\ rsXtg = <<>>
    /\ rsPc = "loaded"

IdleRaster ==
    /\ rsImage = GradientImage(0, 0, 0, 0)
    /\ rsOptions = [contrast |-> 0, dithering |-> "none"]
    /\ rsPasses = 0
    /\ rsXtg = <<>>
    /\ rsPc = "off"

\* The contrast stage of processLoadedImage.
ApplyContrastStage ==
    /\ rsPc = "loaded"
    /\ rsImage' = [rsImage EXCEPT
                      !.data = ContrastStage(rsImage.data, rsOptions.contrast)]
    /\ rsPc' = "contrasted"
    /\ UNCHANGED <<rsOptions, rsPasses, rsXtg>>
    /\ UNCHANGED <<encVars, mergeVars, splitVars, uiVars, pmVars, batchVars,
                   nameVars, wasmVars, headVars, partsVars>>

\* applyDithering(ctx, width, height, options.dithering)
ApplyDithering ==
    /\ rsPc \in {"contrasted", "dithered"}
    /\ rsPasses < MaxPasses
    /\ rsImage' = [rsImage EXCEPT
                      !.data = applyDithering(rsImage.data, rsImage.width,
                                              rsImage.height,
                                              rsOptions.dithering)]
    /\ rsPasses' = rsPasses + 1
    /\ rsPc' = "dithered"
    /\ UNCHANGED <<rsOptions, rsXtg>>
    /\ UNCHANGED <<encVars, mergeVars, splitVars, uiVars, pmVars, batchVars,
                   nameVars, wasmVars, headVars, partsVars>>

\* imageDataToXtg(ctx.getImageData(0, 0, width, height))
ImageDataToXtg ==
    /\ rsPc \in {"contrasted", "dithered"}
    /\ rsXtg' = imageDataToXtg(rsImage)
    /\ rsPc' = "encoded"
    /\ UNCHANGED <<rsImage, rsOptions, rsPasses>>
    /\ UNCHANGED <<encVars, mergeVars, splitVars, uiVars, pmVars, batchVars,
                   nameVars, wasmVars, headVars, partsVars>>

NextRaster == ApplyContrastStage \/ ApplyDithering \/ ImageDataToXtg

\* C16: the encoder packs each row of a width x height image into the least
\* number r of bytes with 8 * r >= width: the pixel data is r * height bytes
\* long, the header's length field says so, and in the last byte of every
\* row the bits beyond column width - 1 are 0.
XtgRowsArePacked ==
    rsPc = "encoded"
        => \E r \in 0..rsImage.width :
              /\ 8 * r >= rsImage.width
              /\ 8 * (r - 1) < rsImage.width
              /\ Len(rsXtg) = XtgHeaderSize + r * rsImage.height
              /\ GetU32(rsXtg, 10) = r * rsImage.height
              /\ \A y \in 0..(rsImage.height - 1) :
                    rsXtg[XtgHeaderSize + y * r + r]
                        % Pow2(8 * r - rsImage.width) = 0

\* A white image 9 pixels wide: two bytes per row, the second one holding
\* column 8 alone.
XtgRowsWitness ==
    /\ rsPc = "encoded"
    /\ rsImage.width = 9
    /\ rsImage.height = 2
    /\ Len(rsXtg) = XtgHeaderSize + 4
    /\ SubSeq(rsXtg, XtgHeaderSize + 1, XtgHeaderSize + 4)
           = <<255, 128, 255, 128>>

\* C17: a second pass of applyDithering with the tag 'none' over a buffer
\* that the first pass thresholded leaves every pixel as it is.
ThresholdIsIdempotent ==
    [][(/\ rsOptions.dithering = "none"
        /\ rsPc = "dithered"
        /\ rsPc' = "dithered") => rsImage' = rsImage]_vars

\* Two threshold passes over an image that has black and white pixels.
ThresholdTwiceWitness ==
    /\ rsPc = "dithered"
    /\ rsOptions.dithering = "none"
    /\ rsPasses = 2
    /\ \E j, k \in 1..Len(rsImage.data) :
          rsImage.data[j] = 0 /\ rsImage.data[k] = 255

\* C18: after applyDithering, under every algorithm tag, every pixel is 0
\* or 255.
DitheredIsMonochrome ==
    rsPc = "dithered"
        => \A k \in 1..Len(rsImage.data) : rsImage.data[k] \in {0, 255}

\* One pass under an unknown tag (Floyd-Steinberg) over an image of at
\* least two rows and columns, leaving black and white pixels.
DitheredWitness ==
    /\ rsPc = "dithered"
    /\ rsPasses = 1
    /\ rsOptions.dithering = "stucki"
    /\ rsImage.width >= 2
    /\ rsImage.height >= 2
    /\ \E j, k \in 1..Len(rsImage.data) :
          rsImage.data[j] = 0 /\ rsImage.data[k] = 255

\* C19: the contrast stage with level 0 leaves every pixel as it was.
ContrastZeroIsNoOp ==
    [][(/\ rsPc = "loaded"
        /\ rsOptions.contrast = 0
        /\ rsPc' = "contrasted") => rsImage' = rsImage]_vars

\* The stage has run with level 0 on an image that the stretch itself
\* would change (its brightest pixel is below 255).
ContrastZeroWitness ==
    /\ rsPc = "contrasted"
    /\ rsOptions.contrast = 0
    /\ \A k \in 1..Len(rsImage.data) : rsImage.data[k] < 255
    /\ applyContrast(rsImage.data, 0) # rsImage.data

----------------------------------------------------------------------------
(* Page names: processLoadedImage and the sort of convertCbzToXtc.         *)

IdleNames ==
    /\ nmImages = <<>>
    /\ nmOptions = [orientation |-> "portrait", splitMode |-> "nosplit",
                    margin |-> 0]
    /\ nmPages = <<>>
    /\ nmPc = "off"

MaxNamePages == 3
LongBook == 10000

\* The segments calculateOverlapSegments cuts a width x height page into.
SegmentHeight(width) == (480 * width) \div 800

\* Math.floor(segmentHeight - (segmentHeight * n - height) / (n - 1))
OverlapShift(segmentHeight, height, n) ==
    (segmentHeight * (n - 1) - (segmentHeight * n - height)) \div (n - 1)

\* The while loop bounded by the 26 page letters in place of 10 segments.
RECURSIVE NumSegmentsUncapped(_, _, _)
NumSegmentsUncapped(segmentHeight, height, n) ==
    IF OverlapShift(segmentHeight, height, n) * 100 > 95 * segmentHeight
       /\ n < 26
    THEN NumSegmentsUncapped(segmentHeight, height, n + 1)
    ELSE n

\* The while loop: one more segment as long as shift / segmentHeight > 0.95
\* and there are fewer than 10.
RECURSIVE NumSegments(_, _, _)
NumSegments(segmentHeight, height, n) ==
    IF OverlapShift(segmentHeight, height, n) * 100 > 95 * segmentHeight
       /\ n < 10
    THEN NumSegments(segmentHeight, height, n + 1)
    ELSE n

OverlapSegments(width, height, segmentHeight, n, shift) ==
    [i \in 1..n |->
        [x |-> 0, y |-> shift * (i - 1), w |-> width,
         h |-> IF i = n THEN height - shift * (i - 1) ELSE segmentHeight]]

\* calculateOverlapSegments with the loop of NumSegmentsUncapped.
calculateOverlapSegmentsUncapped(width, height) ==
    OverlapSegments(width, height, SegmentHeight(width),
                    NumSegmentsUncapped(SegmentHeight(width), height, 3),
                    OverlapShift(SegmentHeight(width), height,
                                 NumSegmentsUncapped(SegmentHeight(width),
                                                     height, 3)))

calculateOverlapSegments(width, height) ==
    OverlapSegments(width, height, SegmentHeight(width),
                    NumSegments(SegmentHeight(width), height, 3),
                    OverlapShift(SegmentHeight(width), height,
                                 NumSegments(SegmentHeight(width), height, 3)))

\* String(n) for n >= 0, as a list of characters.
RECURSIVE NumberString(_)
NumberString(n) ==
    IF n < 10 THEN <<ToString(n)>>
    ELSE Append(NumberString(n \div 10), ToString(n % 10))

\* str.padStart(targetLength, ch): fill on the left, never cut.
padStart(str, targetLength, ch) ==
    [i \in 1..(targetLength - Len(str)) |-> ch] \o str

\* `${String(pageNum).padStart(4, '0')}${tag}`
PageName(pageNum, tag) == padStart(NumberString(pageNum), 4, "0") \o tag

\* String.fromCharCode(97 + idx)
Letter(idx) ==
    <<"a", "b", "c", "d", "e", "f", "g", "h", "i", "j", "k", "l", "m", "n",
      "o", "p", "q", "r", "s", "t", "u", "v", "w", "x", "y", "z">>[idx + 1]

\* A ProcessedPage; its canvas shows segment `segment` of source page
\* pageNum, cut from the rectangle rect of the preprocessed page.
Page(pageNum, segment, tag, rect) ==
    [name |-> PageName(pageNum, tag),
     canvas |-> [pageNum |-> pageNum, segment |-> segment, rect |-> rect]]

\* The margin crop: floor(size * margin / 100) taken off both sides.
Cropped(size, margin) ==
    IF margin > 0 THEN size - 2 * ((size * margin) \div 100) ELSE size

\* processLoadedImage from the orientation test on; width and height are
\* those of the page after the margin crop.
processLoadedImage(width, height, pageNum, options) ==
    IF options.orientation = "portrait"
    THEN <<Page(pageNum, 0, <<"_", "0", "_", "p", "a", "g", "e",
                              ".", "p", "n", "g">>,
                [x |-> 0, y |-> 0, w |-> width, h |-> height])>>
    ELSE IF width < height /\ options.splitMode # "nosplit"
    THEN IF options.splitMode = "overlap"
         THEN [idx \in 1..Len(calculateOverlapSegments(width, height))
                  |-> Page(pageNum, idx - 1,
                           <<"_", "3", "_", Letter(idx - 1),
                             ".", "p", "n", "g">>,
                           calculateOverlapSegments(width, height)[idx])]
         ELSE <<Page(pageNum, 0, <<"_", "2", "_", "a", ".", "p", "n", "g">>,
                     [x |-> 0, y |-> 0, w |-> width, h |-> height \div 2]),
                Page(pageNum, 1, <<"_", "2", "_", "b", ".", "p", "n", "g">>,
                     [x |-> 0, y |-> height \div 2, w |-> width,
                      h |-> height \div 2])>>
    ELSE <<Page(pageNum, 0, <<"_", "0", "_", "s", "p", "r", "e", "a", "d",
                              ".", "p", "n", "g">>,
                [x |-> 0, y |-> 0, w |-> width, h |-> height])>>

\* processImage: no page when the image does not load (width 0 here),
\* else the pages of processLoadedImage.
processImage(img, pageNum, options) ==
    IF img.width = 0 THEN <<>>
    ELSE processLoadedImage(Cropped(img.width, options.margin),
                            Cropped(img.height, options.margin),
                            pageNum, options)

\* The page loop of convertCbzToXtc over images lo..hi:
\* processedPages.push(...pages) for each image in turn.
RECURSIVE ProcessImages(_, _, _, _)
ProcessImages(images, options, lo, hi) ==
    IF lo > hi THEN <<>>
    ELSE IF lo = hi THEN processImage(images[lo], lo, options)
    ELSE ProcessImages(images, options, lo, (lo + hi) \div 2)
             \o ProcessImages(images, options, (lo + hi) \div 2 + 1, hi)

\* The rank of a character in the collation localeCompare uses: the
\* underscore and the dot before the digits, the digits before the letters.
CollationRank(ch) ==
    CASE ch = "_" -> 0
      [] ch = "." -> 1
      [] ch \in {"0", "1", "2", "3", "4", "5", "6", "7", "8", "9"} ->
           2 + DigitValue(ch)
      [] OTHER -> 12 + (CHOOSE k \in 0..25 : Letter(k) = ch)

\* a.localeCompare(b) from character i on: negative, zero or positive.
RECURSIVE localeCompare(_, _, _)
localeCompare(a, b, i) ==
    IF i > Len(a) THEN (IF i > Len(b) THEN 0 ELSE -1)
    ELSE IF i > Len(b) THEN 1
    ELSE IF a[i] # b[i] THEN CollationRank(a[i]) - CollationRank(b[i])
    ELSE localeCompare(a, b, i + 1)

\* processedPages.sort((a, b) => a.name.localeCompare(b.name))
SortByName(pages) ==
    SortSeq(pages, LAMBDA a, b : localeCompare(a.name, b.name, 1) < 0)

ImageShapes ==
    { [width |-> 0, height |-> 0],
      [width |-> 1200, height |-> 800],
      [width |-> 800, height |-> 1200],
      [width |-> 800, height |-> 1201],
      [width |-> 99, height |-> 100],
      [width |-> 800, height |-> 4000],
      [width |-> 800, height |-> 8000] }

Margins == {0, 10}

StartNames ==
    /\ \/ /\ nmImages \in UNION {[1..n -> ImageShapes] : n \in 1..MaxNamePages}
          /\ nmOptions \in [orientation : {"portrait", "landscape"},
                            splitMode : {"nosplit", "split", "overlap"},
                            margin : Margins]
       \/ /\ nmImages = [i \in 1..LongBook |-> [width |-> 800, height |-> 1200]]
          /\ nmOptions = [orientation |-> "portrait", splitMode |-> "nosplit",
                          margin |-> 0]
    /\ nmPages = <<>>
    /\ nmPc = "start"

\* convertCbzToXtc from its page loop to the sort that follows it.
ConvertAndSort ==
    /\ nmPc = "start"
    /\ nmPages' = SortByName(ProcessImages(nmImages, nmOptions,
                                          1, Len(nmImages)))
    /\ nmPc' = "sorted"
    /\ UNCHANGED <<nmImages, nmOptions>>
    /\ UNCHANGED <<encVars, mergeVars, splitVars, uiVars, pmVars, batchVars,
                   rasterVars, wasmVars, headVars, partsVars>>

NextNames == ConvertAndSort

\* Page a comes before page b in reading order.
ReadsBefore(a, b) ==
    \/ a.canvas.pageNum < b.canvas.pageNum
    \/ /\ a.canvas.pageNum = b.canvas.pageNum
       /\ a.canvas.segment < b.canvas.segment

\* C20: after the sort by name the output pages are in reading order:
\* ascending source page number and, within a source page, segment order.
SortedPagesInReadingOrder ==
    nmPc = "sorted"
        => \A k \in 1..(Len(nmPages) - 1) :
              ReadsBefore(nmPages[k], nmPages[k + 1])

----------------------------------------------------------------------------
(* The segmenter: output pages per source page and their rectangles.       *)

\* The output pages of source page i, in output order.
OutputsOf(i) == SelectSeq(nmPages, LAMBDA p : p.canvas.pageNum = i)

\* Source page i loaded, and after the margin crop it is taller than wide.
Loaded(i) == nmImages[i].width # 0

TallerThanWide(i) ==
    Cropped(nmImages[i].width, nmOptions.margin)
        < Cropped(nmImages[i].height, nmOptions.margin)

\* C21: a loaded source page becomes exactly 1 output page in portrait
\* orientation, exactly 1 in landscape orientation when it is not taller
\* than wide or splitMode is nosplit, exactly 2 in landscape orientation when
\* it is taller than wide and splitMode is split, and between 3 and 10 when
\* it is taller than wide and splitMode is overlap.
OutputPagesPerSource ==
    nmPc = "sorted" =>
        \A i \in 1..Len(nmImages) :
            Loaded(i) =>
                /\ nmOptions.orientation = "portrait"
                       => Len(OutputsOf(i)) = 1
                /\ (/\ nmOptions.orientation = "landscape"
                    /\ (~TallerThanWide(i) \/ nmOptions.splitMode = "nosplit"))
                       => Len(OutputsOf(i)) = 1
                /\ (/\ nmOptions.orientation = "landscape"
                    /\ TallerThanWide(i)
                    /\ nmOptions.splitMode = "split")
                       => Len(OutputsOf(i)) = 2
                /\ (/\ nmOptions.orientation = "landscape"
                    /\ TallerThanWide(i)
                    /\ nmOptions.splitMode = "overlap")
                       => Len(OutputsOf(i)) \in 3..10

\* A landscape overlap conversion in which one page was cut into 10
\* segments, one into 3 and one was not split at all.
OutputPagesWitness ==
    /\ nmPc = "sorted"
    /\ nmOptions.orientation = "landscape"
    /\ nmOptions.splitMode = "overlap"
    /\ \E i, j, k \in 1..Len(nmImages) :
          /\ Loaded(i) /\ TallerThanWide(i) /\ Len(OutputsOf(i)) = 10
          /\ Loaded(j) /\ TallerThanWide(j) /\ Len(OutputsOf(j)) = 3
          /\ Loaded(k) /\ ~TallerThanWide(k) /\ Len(OutputsOf(k)) = 1

\* C22: for every page taller than wide, calculateOverlapSegments returns
\* between 3 and 10 segments, and each segment starts at most 95% of
\* segmentHeight below the segment before it, so that consecutive segments
\* share at least 5% of segmentHeight.
OverlapSegmentsOverlap ==
    (/\ nmPc = "sorted"
     /\ nmOptions.orientation = "landscape"
     /\ nmOptions.splitMode = "overlap")
        => \A i \in 1..Len(nmImages) :
              (Loaded(i) /\ TallerThanWide(i))
                  => /\ Len(OutputsOf(i)) \in 3..10
                     /\ \A k \in 1..(Len(OutputsOf(i)) - 1) :
                           (OutputsOf(i)[k + 1].canvas.rect.y
                                - OutputsOf(i)[k].canvas.rect.y) * 100
                               <= 95 * OutputsOf(i)[k].canvas.rect.h

\* The height of source page i after the margin crop.
PageHeight(i) == Cropped(nmImages[i].height, nmOptions.margin)

\* C27: in landscape split mode the two halves partition the page: the top
\* half is rows [0, floor(height / 2)), the bottom half is the remaining
\* rows up to height, so every row is in exactly one of the two pages.
SplitHalvesPartition ==
    (/\ nmPc = "sorted"
     /\ nmOptions.orientation = "landscape"
     /\ nmOptions.splitMode = "split")
        => \A i \in 1..Len(nmImages) :
              (Loaded(i) /\ TallerThanWide(i))
                  => /\ Len(OutputsOf(i)) = 2
                     /\ OutputsOf(i)[1].canvas.rect.y = 0
                     /\ OutputsOf(i)[1].canvas.rect.h = PageHeight(i) \div 2
                     /\ OutputsOf(i)[2].canvas.rect.y = PageHeight(i) \div 2
                     /\ OutputsOf(i)[2].canvas.rect.y
                            + OutputsOf(i)[2].canvas.rect.h = PageHeight(i)

----------------------------------------------------------------------------
(* The layout of a written container.                                      *)

\* The page blobs a finished merge to XTC handed to its writer: the raw
\* blobs of the fast path (buildXtcFromRawPages), else the XTG encoding of
\* each resized canvas (buildXtc).
WrittenBlobs ==
    IF validateSameType(mFiles).type = "xtc" THEN mAll
    ELSE [i \in 1..Len(mAll) |-> imageDataToXtg(resizeCanvasForXtc(mAll[i]))]

\* Index entry i (0-based) of buf, read at byte 48 + 16 * i.
EntryAt(buf, i) == parseIndexEntry(buf, 48 + 16 * i)

\* buf holds a header, an index and a data section laid out for blobs.
LaidOutFor(buf, blobs) ==
    /\ GetU64(buf, 24) = 48
    /\ GetU64(buf, 32) = 48 + 16 * Len(blobs)
    /\ Len(blobs) = 0 => Len(buf) = 48
    /\ Len(blobs) > 0 =>
          /\ EntryAt(buf, 0).offset = GetU64(buf, 32)
          /\ EntryAt(buf, Len(blobs) - 1).offset
                 + EntryAt(buf, Len(blobs) - 1).size = Len(buf)
    /\ \A i \in 0..(Len(blobs) - 1) :
          /\ EntryAt(buf, i).size = Len(blobs[i + 1])
          /\ EntryAt(buf, i).offset >= GetU64(buf, 32)
          /\ i + 1 < Len(blobs) =>
                EntryAt(buf, i + 1).offset
                    = EntryAt(buf, i).offset + EntryAt(buf, i).size

\* C23: in every container buildXtc or buildXtcFromRawPages wrote,
\* indexOffset is 48, dataOffset is 48 + 16 * pageCount, index entry 0 has
\* offset dataOffset, entry i + 1 starts where entry i ends, each entry's
\* size is its blob's byte length, and the last entry ends at the end of
\* the container.
ContainerLayout ==
    (mPc = "done" /\ mFormat = "xtc") => LaidOutFor(mResult.data, WrittenBlobs)

\* The fast path wrote a container of page blobs of different lengths.
ContainerLayoutWitness ==
    /\ mPc = "done"
    /\ mFormat = "xtc"
    /\ validateSameType(mFiles).type = "xtc"
    /\ Len(mAll) >= 2
    /\ Len(mAll[1]) # Len(mAll[2])
    /\ Len(mResult.data) = 48 + 16 * Len(mAll) + SumLen(mAll)

\* C28: in every container the raw fast path of a merge produced, each
\* index entry's width and height are the width and height stored in that
\* page blob's own XTG header, whatever the page dimensions of the inputs.
IndexEntryDimensions ==
    (mPc = "done" /\ mFormat = "xtc" /\ validateSameType(mFiles).type = "xtc")
        => \A i \in 1..Len(mAll) :
              /\ EntryAt(mResult.data, i - 1).width = GetU16(mAll[i], 4)
              /\ EntryAt(mResult.data, i - 1).height = GetU16(mAll[i], 6)

----------------------------------------------------------------------------
(* Round trip of one page: imageDataToXtg, then decodeXtgToCanvas.         *)

\* The gray level of pixel (x, y) of the encoded image.
SourceGray(x, y) == rsImage.data[y * rsImage.width + x + 1]

\* Bit 7 - (x mod 8) of byte y * ceil(width / 8) + floor(x / 8) of the
\* bitmap that follows the 22 header bytes of rsXtg.
CarriedBit(x, y) ==
    (rsXtg[22 + y * ((rsImage.width + 7) \div 8) + (x \div 8) + 1]
        \div (2 ^ (7 - (x % 8)))) % 2

\* C24: decoding the blob imageDataToXtg produced gives a raster of the same
\* width and height in which pixel (x, y) is white (255) exactly when the
\* source pixel's gray value was at least 128 and black (0) otherwise, and
\* bit 7 - (x mod 8) of byte y * ceil(width / 8) + floor(x / 8) of the bitmap
\* carries pixel (x, y).
XtgRoundTrip ==
    rsPc = "encoded" =>
        /\ decodeXtgToCanvas(rsXtg).ok
        /\ decodeXtgToCanvas(rsXtg).width = rsImage.width
        /\ decodeXtgToCanvas(rsXtg).height = rsImage.height
        /\ \A x \in 0..(rsImage.width - 1), y \in 0..(rsImage.height - 1) :
              /\ decodeXtgToCanvas(rsXtg).data[y * rsImage.width + x + 1]
                     = IF SourceGray(x, y) >= 128 THEN 255 ELSE 0
              /\ CarriedBit(x, y) = 1 <=> SourceGray(x, y) >= 128

\* An encoded image, more than one byte wide and more than one row high,
\* that holds the gray levels 127 and 128 and a level off black and white.
XtgRoundTripWitness ==
    /\ rsPc = "encoded"
    /\ rsImage.width > 8
    /\ rsImage.height > 1
    /\ \E i, j \in 1..Len(rsImage.data) :
          rsImage.data[i] = 127 /\ rsImage.data[j] = 128
    /\ decodeXtgToCanvas(rsXtg).data # rsImage.data

----------------------------------------------------------------------------
(* Page rasters held by a merge.                                           *)

\* The page canvases a merge of PDF files holds while it renders: every
\* canvas pushed onto allCanvases stays there until the output is built.
RetainedRasters == IF mPc = "pdfRender" THEN Len(mAll) ELSE 0

\* C25: at every point of a merge that goes through the full pipeline, at
\* most one decoded page raster is retained: a page's raster is released
\* before the next page is decoded.
AtMostOneRaster == RetainedRasters <= 1

----------------------------------------------------------------------------
(* The decoder asset cache: loadUnrarWasm, called by convertCbrToXtc.      *)

\* Largest number of convertCbrToXtc calls in flight together.
MaxCallers == 3

Callers == 1..MaxCallers

IdleWasm ==
    /\ wasmBinaryCache = "null"
    /\ wcPc = [c \in Callers |-> "off"]
    /\ wcFetches = 0
    /\ wcWrites = 0

StartWasm ==
    /\ wasmBinaryCache = "null"
    /\ wcPc = [c \in Callers |-> "idle"]
    /\ wcFetches = 0
    /\ wcWrites = 0

\* convertCbrToXtc calls loadUnrarWasm, which runs up to its first await:
\* it returns the cache when it is set, else it calls fetch(unrarWasm).
LoadUnrarWasm(c) ==
    /\ wcPc[c] = "idle"
    /\ IF wasmBinaryCache # "null"
       THEN /\ wcPc' = [wcPc EXCEPT ![c] = "returned"]
            /\ UNCHANGED wcFetches
       ELSE /\ wcPc' = [wcPc EXCEPT ![c] = "fetching"]
            /\ wcFetches' = wcFetches + 1
    /\ UNCHANGED <<wasmBinaryCache, wcWrites>>
    /\ UNCHANGED <<encVars, mergeVars, splitVars, uiVars, pmVars, batchVars,
                   rasterVars, nameVars, headVars, partsVars>>

\* The fetch promise resolves: response.arrayBuffer() is called and awaited.
FetchResolves(c) ==
    /\ wcPc[c] = "fetching"
    /\ wcPc' = [wcPc EXCEPT ![c] = "reading"]
    /\ UNCHANGED <<wasmBinaryCache, wcFetches, wcWrites>>
    /\ UNCHANGED <<encVars, mergeVars, splitVars, uiVars, pmVars, batchVars,
                   rasterVars, nameVars, headVars, partsVars>>

\* The fetch promise rejects: loadUnrarWasm and convertCbrToXtc reject.
FetchRejects(c) ==
    /\ wcPc[c] = "fetching"
    /\ wcPc' = [wcPc EXCEPT ![c] = "failed"]
    /\ UNCHANGED <<wasmBinaryCache, wcFetches, wcWrites>>
    /\ UNCHANGED <<encVars, mergeVars, splitVars, uiVars, pmVars, batchVars,
                   rasterVars, nameVars, headVars, partsVars>>

\* wasmBinaryCache = await response.arrayBuffer(); return wasmBinaryCache
ArrayBufferResolves(c) ==
    /\ wcPc[c] = "reading"
    /\ wasmBinaryCache' = "wasm"
    /\ wcWrites' = wcWrites + 1
    /\ wcPc' = [wcPc EXCEPT ![c] = "returned"]
    /\ UNCHANGED wcFetches
    /\ UNCHANGED <<encVars, mergeVars, splitVars, uiVars, pmVars, batchVars,
                   rasterVars, nameVars, headVars, partsVars>>

NextWasm ==
    \E c \in Callers :
        \/ LoadUnrarWasm(c)
        \/ FetchResolves(c)
        \/ FetchRejects(c)
        \/ ArrayBufferResolves(c)

\* C26: across any interleaving of convertCbrToXtc calls the decoder asset
\* is fetched at most once, and wasmBinaryCache is never written again
\* after its first initialization.
AssetLoadedOnce == wcFetches <= 1 /\ wcWrites <= 1

----------------------------------------------------------------------------
(* The page count field: the header buildXtc and buildXtcFromRawPages      *)
(* write for a list of pageCount blobs, read back by parseXtcHeader.       *)

\* The number of values of a uint16 field.
Uint16Range == 65536

\* How far the page counts of the model lie from 0 and from Uint16Range.
MaxOver == 20

\* Page counts next to 0 and on either side of the uint16 limit.
HeaderCounts ==
    {n \in 0..(Uint16Range + MaxOver) :
        n <= MaxOver \/ n >= Uint16Range - MaxOver}

\* The first 48 bytes of the buffer a writer returns for pageCount blobs.
HeaderFor(pageCount) ==
    WriteXtcHeader(Zeros(XtcHeaderSize), pageCount, XtcHeaderSize,
                   XtcHeaderSize + pageCount * IndexEntrySize)

StartHead ==
    /\ hdCount \in HeaderCounts
    /\ hdBuffer = <<>>
    /\ hdHeader = NoHeader
    /\ hdPc = "start"

IdleHead ==
    /\ hdCount = 0
    /\ hdBuffer = <<>>
    /\ hdHeader = NoHeader
    /\ hdPc = "off"

\* buildXtcFromRawPages(xtgBlobs), as far as the header
WriteHeader ==
    /\ hdPc = "start"
    /\ hdBuffer' = HeaderFor(hdCount)
    /\ hdPc' = "written"
    /\ UNCHANGED <<hdCount, hdHeader>>
    /\ UNCHANGED <<encVars, mergeVars, splitVars, uiVars, pmVars, batchVars,
                   rasterVars, nameVars, wasmVars, partsVars>>

\* parseXtcHeader(new DataView(buffer))
ParseHeader ==
    /\ hdPc = "written"
    /\ hdHeader' = parseXtcHeader(hdBuffer)
    /\ hdPc' = "parsed"
    /\ UNCHANGED <<hdCount, hdBuffer>>
    /\ UNCHANGED <<encVars, mergeVars, splitVars, uiVars, pmVars, batchVars,
                   rasterVars, nameVars, wasmVars, partsVars>>

NextHead == WriteHeader \/ ParseHeader

\* C29: for every list of page blobs a writer was given, merges of more
\* than 65,535 pages included, the pageCount field read back from the
\* header is the number of blobs written.
PageCountReadBack == hdPc = "parsed" => hdHeader.pageCount = hdCount

----------------------------------------------------------------------------
(* Equal parts: one call of calculateEqualParts (lib/split.ts).            *)

\* The largest totalPages of the model; parts runs one past it.
MaxTotalPages == 12

NoRanges == [ok |-> FALSE, error |-> "", ranges |-> <<>>]

StartParts ==
    /\ epTotalPages \in 0..MaxTotalPages
    /\ epParts \in (0 - 1)..(MaxTotalPages + 1)
    /\ epResult = NoRanges
    /\ epPc = "start"

IdleParts ==
    /\ epTotalPages = 0
    /\ epParts = 0
    /\ epResult = NoRanges
    /\ epPc = "off"

\* calculateEqualParts(totalPages, parts)
CalculateEqualParts ==
    /\ epPc = "start"
    /\ epResult' = calculateEqualParts(epTotalPages, epParts)
    /\ epPc' = "done"
    /\ UNCHANGED <<epTotalPages, epParts>>
    /\ UNCHANGED <<encVars, mergeVars, splitVars, uiVars, pmVars, batchVars,
                   rasterVars, nameVars, wasmVars, headVars>>

NextParts == CalculateEqualParts

\* The number of pages of a range.
RangeSize(r) == r.end - r.start + 1

\* The ranges partition 1..totalPages in order, none of them empty.
PartitionsPages(ranges, totalPages) ==
    /\ ranges[1].start = 1
    /\ \A k \in 1..(Len(ranges) - 1) : ranges[k + 1].start = ranges[k].end + 1
    /\ ranges[Len(ranges)].end = totalPages
    /\ \A k \in 1..Len(ranges) : RangeSize(ranges[k]) >= 1

\* Sizes differ by at most 1 and never grow along the list.
LargerFirst(ranges) ==
    /\ \A j, k \in 1..Len(ranges) :
          RangeSize(ranges[j]) - RangeSize(ranges[k]) <= 1
    /\ \A k \in 1..(Len(ranges) - 1) :
          RangeSize(ranges[k]) >= RangeSize(ranges[k + 1])

\* C30: for totalPages >= 1 and 1 <= parts <= totalPages, calculateEqualParts
\* returns exactly `parts` non-empty ranges that partition 1..totalPages in
\* order, with sizes differing by at most 1 and the larger ranges first; for
\* parts < 1 or parts > totalPages it raises an error.
EqualPartsPartition ==
    epPc = "done"
        => IF epParts < 1 \/ epParts > epTotalPages
           THEN ~epResult.ok
           ELSE /\ epResult.ok
                /\ Len(epResult.ranges) = epParts
                /\ PartitionsPages(epResult.ranges, epTotalPages)
                /\ LargerFirst(epResult.ranges)

\* A call that returned ranges of two different sizes.
EqualPartsWitness ==
    /\ epPc = "done"
    /\ epResult.ok
    /\ epParts >= 3
    /\ RangeSize(epResult.ranges[1]) > RangeSize(epResult.ranges[epParts])

----------------------------------------------------------------------------
(* Specifications.                                                         *)

InitEnc == StartEnc /\ IdleMerge /\ IdleSplit /\ IdleUi /\ IdlePm /\ IdleBatch
        /\ IdleRaster /\ IdleNames /\ IdleWasm /\ IdleHead /\ IdleParts
SpecEnc == InitEnc /\ [][NextEnc]_vars

InitMerge == StartMerge /\ IdleEnc /\ IdleSplit /\ IdleUi /\ IdlePm /\ IdleBatch
        /\ IdleRaster /\ IdleNames /\ IdleWasm /\ IdleHead /\ IdleParts
SpecMerge == InitMerge /\ [][NextMerge]_vars

InitSplit == StartSplit /\ IdleEnc /\ IdleMerge /\ IdleUi /\ IdlePm /\ IdleBatch
        /\ IdleRaster /\ IdleNames /\ IdleWasm /\ IdleHead /\ IdleParts
SpecSplit == InitSplit /\ [][NextSplit]_vars

InitUi == StartUi /\ IdleEnc /\ IdlePm /\ IdleBatch
        /\ IdleRaster /\ IdleNames /\ IdleWasm /\ IdleHead /\ IdleParts
SpecUi == InitUi /\ [][NextUi]_vars

InitPm == StartPm /\ IdleEnc /\ IdleMerge /\ IdleSplit /\ IdleUi /\ IdleBatch
        /\ IdleRaster /\ IdleNames /\ IdleWasm /\ IdleHead /\ IdleParts
SpecPm == InitPm /\ [][NextPm]_vars

InitConvert == StartConvert /\ IdleEnc /\ IdleMerge /\ IdleSplit /\ IdleUi /\ IdleBatch
        /\ IdleRaster /\ IdleNames /\ IdleWasm /\ IdleHead /\ IdleParts
SpecConvert == InitConvert /\ [][NextConvert]_vars

InitBatch ==
    StartBatch /\ IdleEnc /\ IdleMerge /\ IdleSplit /\ IdleUi /\ IdlePm
        /\ IdleRaster /\ IdleNames /\ IdleWasm /\ IdleHead /\ IdleParts
SpecBatch == InitBatch /\ [][NextBatch]_vars

InitRaster ==
    StartRaster /\ IdleEnc /\ IdleMerge /\ IdleSplit /\ IdleUi /\ IdlePm
        /\ IdleBatch /\ IdleNames /\ IdleWasm /\ IdleHead /\ IdleParts
SpecRaster == InitRaster /\ [][NextRaster]_vars

InitNames ==
    StartNames /\ IdleEnc /\ IdleMerge /\ IdleSplit /\ IdleUi /\ IdlePm
        /\ IdleBatch /\ IdleRaster /\ IdleWasm /\ IdleHead /\ IdleParts
SpecNames == InitNames /\ [][NextNames]_vars

InitWasm ==
    StartWasm /\ IdleEnc /\ IdleMerge /\ IdleSplit /\ IdleUi /\ IdlePm
        /\ IdleBatch /\ IdleRaster /\ IdleNames /\ IdleHead /\ IdleParts
SpecWasm == InitWasm /\ [][NextWasm]_vars

InitHead ==
    StartHead /\ IdleEnc /\ IdleMerge /\ IdleSplit /\ IdleUi /\ IdlePm
        /\ IdleBatch /\ IdleRaster /\ IdleNames /\ IdleWasm /\ IdleParts
SpecHead == InitHead /\ [][NextHead]_vars

InitParts ==
    StartParts /\ IdleEnc /\ IdleMerge /\ IdleSplit /\ IdleUi /\ IdlePm
        /\ IdleBatch /\ IdleRaster /\ IdleNames /\ IdleWasm /\ IdleHead
SpecParts == InitParts /\ [][NextParts]_vars

====
